---- MODULE Spec2Model ----
(***************************************************************************)
(* Appointment booker: the REST backend of api/[...all].js as a state      *)
(* machine over its tables (appointments, business_hours, holiday_hours,   *)
(* Reviews, users), the session of one client and the server clock.        *)
(*                                                                         *)
(* Conventions                                                             *)
(*  - a text value is a sequence of characters; a digit is the number      *)
(*    0..9 and ":" is the number 10, so that the order of the numbers is   *)
(*    the order of the character codes ("0" < ... < "9" < ":") that the    *)
(*    JavaScript string comparison uses;                                   *)
(*  - a TIME column holds minutes since 00:00 (the code only ever writes   *)
(*    seconds = 00), NULL is NoTime; the driver hands it to JavaScript as  *)
(*    the text "HH:MM:SS" (timeColumnText);                                *)
(*  - a DATE is a day number, day 0 being a Sunday; ISO dates of equal     *)
(*    width order as their day numbers do;                                 *)
(*  - the clock `now` counts minutes from 00:00 of day 0.                  *)
(***************************************************************************)
EXTENDS Integers, Sequences, FiniteSets, TLC

VARIABLES
    appointments,    \* table appointments: set of rows
    nextApptId,      \* AUTO_INCREMENT of appointments.id
    business_hours,  \* table business_hours: set of rows keyed by week_day
    holiday_hours,   \* table holiday_hours: set of rows
    nextHolidayId,   \* AUTO_INCREMENT of holiday_hours.id
    session,         \* req.session.user of the one client session, or NoUser
    now,             \* the server clock, minutes since day 0 00:00
    pc,              \* per in-flight request: which statement comes next
    req,             \* per in-flight request: the validated request
    resp,            \* per request slot: the last response sent
    avail,           \* the last response of GET /api/availability
    auth,            \* the last response of an /auth route
    admin,           \* the last response of a single-statement admin route
    reviews,         \* table Reviews: set of rows
    nextReviewId,    \* AUTO_INCREMENT of Reviews.ReviewID
    review,          \* the last response of an /api/reviews route
    info,            \* the last response of GET /api/holiday-info, with its adapter
    clientUser,      \* AuthContext: the user state of the page, or NoUser for null
    path,            \* the route the router of the page is on
    requested,       \* the address the page was loaded with
    meRequests,      \* the GET /auth/me requests of the page not yet settled
    step,            \* BookAppointment: "date", "time" or "details"
    formData,        \* BookAppointment: the fields of the form
    viewMonth,       \* BookAppointment: the month the calendar shows
    availableTimes,  \* BookAppointment: the times offered in the time step
    loadingTimes,    \* BookAppointment: the loading flag of the time step
    timesError,      \* BookAppointment: the error of the time step, or NullText
    holidayInfo,     \* BookAppointment: the holiday of the date, or NoHolidayInfo
    fetches,         \* BookAppointment: the availability requests not yet settled
    submits,         \* BookAppointment: the POST /api/BookAppointment in flight
    editing,         \* AllAppointments: the appointment being edited, or NoEditing
    editForm,        \* AllAppointments: date and duration of the edit form
    bookedTimesForEdit, \* AllAppointments: the time options shown disabled
    lookups          \* AllAppointments: the POST /api/availability in flight

reviewVars == <<reviews, nextReviewId, review>>

guardVars  == <<clientUser, path, requested, meRequests>>
wizardVars == <<step, formData, viewMonth, availableTimes, loadingTimes,
                timesError, holidayInfo, fetches, submits>>
modalVars  == <<editing, editForm, bookedTimesForEdit, lookups>>
clientVars == <<guardVars, wizardVars, modalVars>>

vars == <<appointments, nextApptId, business_hours, holiday_hours,
          nextHolidayId, session, now, pc, req, resp, avail, auth, admin,
          reviews, nextReviewId, review, info, clientVars>>

-----------------------------------------------------------------------------
(* Bounds of the model *)

\* ids the appointments table hands out
MaxAppts == 2
\* ids the holiday_hours table hands out
MaxHolidays == 2
MaxReviews == 2
\* POST /api/BookAppointment requests of the wizard in flight at once
MaxSubmits == 2
\* the dates requests name: day 0 (a Sunday) and day 1 (a Monday)
Days == {0, 1}
\* the request slots: two requests may be in flight at once
Req == {"r1", "r2"}

NoUser == [id |-> 0, email |-> "", role |-> ""]
NoTime == 0 - 1
NoDate == 0 - 1
NoReq  == [kind |-> "none"]

-----------------------------------------------------------------------------
(* Text and time helpers *)

Colon == 10

RECURSIVE Digits(_)
\* String(n) for n >= 0
Digits(n) == IF n < 10 THEN <<n>> ELSE Append(Digits(n \div 10), n % 10)

\* String(n).padStart(2, "0")
padStart2(n) == IF n < 10 THEN <<0, n>> ELSE Digits(n)

RECURSIVE NumberOf(_)
\* Number(s) of a run of digits
NumberOf(s) == IF s = <<>> THEN 0
               ELSE NumberOf(SubSeq(s, 1, Len(s) - 1)) * 10 + s[Len(s)]

RECURSIVE StrLess(_, _)
\* a < b on JavaScript strings: by character code, a proper prefix first
StrLess(a, b) ==
    IF b = <<>> THEN FALSE
    ELSE IF a = <<>> THEN TRUE
    ELSE IF a[1] # b[1] THEN a[1] < b[1]
    ELSE StrLess(Tail(a), Tail(b))

StrLeq(a, b) == a = b \/ StrLess(a, b)

RECURSIVE IndexOfColon(_, _)
\* s.indexOf(":") from position i on, 0 when there is none
IndexOfColon(s, i) ==
    IF i > Len(s) THEN 0
    ELSE IF s[i] = Colon THEN i
    ELSE IndexOfColon(s, i + 1)

RECURSIVE Split(_)
\* s.split(":"): the pieces between the colons
Split(s) ==
    LET i == IndexOfColon(s, 1)
    IN  IF i = 0 THEN <<s>>
        ELSE <<SubSeq(s, 1, i - 1)>> \o Split(SubSeq(s, i + 1, Len(s)))

\* the text "HH:MM" of h hours and m minutes
HHMM(h, m) == padStart2(h) \o <<Colon>> \o padStart2(m)

\* what the driver returns for a TIME column holding t minutes: "HH:MM:SS"
timeColumnText(t) == HHMM(t \div 60, t % 60) \o <<Colon, 0, 0>>

\* toHHMM: String(timeStr || "").slice(0, 5)
toHHMM(timeStr) == SubSeq(timeStr, 1, IF Len(timeStr) < 5 THEN Len(timeStr) ELSE 5)

\* addMinutesHHMM: split on ":", add, format with padStart(2, "0")
addMinutesHHMM(hhmm, mins) ==
    LET parts == Split(hhmm)
        total == NumberOf(parts[1]) * 60 + NumberOf(parts[2]) + mins
    IN  HHMM(total \div 60, total % 60)

\* MySQL TIME('HH:MM'): the minutes of a well-formed time text
SqlTime(hhmm) ==
    LET parts == Split(hhmm)
    IN  NumberOf(parts[1]) * 60 + NumberOf(parts[2])

\* new Date(`${date}T${hhmm}`) on the scale of `now`
DateTime(date, hhmm) == date * (24 * 60) + SqlTime(hhmm)

\* the calendar date of the clock
Today == now \div (24 * 60)

\* String(time).slice(0, 5)
Slice5(s) == SubSeq(s, 1, IF Len(s) < 5 THEN Len(s) ELSE 5)

\* /^\d{2}:\d{2}$/
IsHHMM(s) ==
    /\ Len(s) = 5
    /\ s[1] \in 0..9 /\ s[2] \in 0..9 /\ s[3] = Colon /\ s[4] \in 0..9 /\ s[5] \in 0..9

\* whether new Date(`${date}T${hhmm}`) of a well-formed date is a valid date
JsTimeValid(hhmm) ==
    LET parts == Split(hhmm)
        h == NumberOf(parts[1])
        m == NumberOf(parts[2])
    IN  Len(parts[1]) = 2 /\ Len(parts[2]) = 2 /\ m <= 59
        /\ (h <= 23 \/ (h = 24 /\ m = 0))

\* a character of a phone number that is not a digit
Dash == 11

\* a phoneNumber field of a request body: absent, null or a text
NoPhoneField == [kind |-> "absent", text |-> <<>>]
NullPhone == [kind |-> "null", text |-> <<>>]
PhoneText(t) == [kind |-> "text", text |-> t]

\* phoneNumber != null && phoneNumber !== ""
PhoneGiven(p) == p.kind = "text" /\ p.text # <<>>

\* onlyDigits: String(s || "").replace(/\D/g, "")
onlyDigits(s) == SelectSeq(s, LAMBDA c : c \in 0..9)

\* normalizeNANPTo10: ten digits, or eleven that start with 1; else null (the
\* empty text)
normalizeNANPTo10(raw) ==
    LET d == onlyDigits(raw)
    IN  IF Len(d) = 10 THEN d
        ELSE IF Len(d) = 11 /\ d[1] = 1 THEN Tail(d)
        ELSE <<>>

-----------------------------------------------------------------------------
(* The users table (read-only) and the session routes *)

\* bcrypt: a hash is modelled as the pair <<"bcrypt", plaintext>>
Hash(p) == <<"bcrypt", p>>
bcryptCompare(p, h) == h = Hash(p)

Users ==
    { [id |-> 1, email |-> "admin@x", password_hash |-> Hash("pw-admin"), role |-> "admin"],
      [id |-> 2, email |-> "viewer@x", password_hash |-> Hash("pw-viewer"), role |-> "viewer"] }

\* the response of an /auth route: status, the user or the message of the
\* body, and whether the body is {ok: true}
AuthReply(route, status, user, message, ok) ==
    [route |-> route, status |-> status, user |-> user, message |-> message, ok |-> ok]
NoAuth == AuthReply("none", 0, NoUser, "", FALSE)

\* variant: an answer that says which of the two was wrong
LoginAnswerNamesField(email, password) ==
    LET found == {u \in Users : u.email = email}
    IN  IF email = "" \/ password = ""
        THEN AuthReply("login", 400, NoUser, "Missing credentials", FALSE)
        ELSE IF found = {}
        THEN AuthReply("login", 401, NoUser, "Unknown email", FALSE)
        ELSE LET user == CHOOSE u \in found : TRUE
             IN  IF ~bcryptCompare(password, user.password_hash)
                 THEN AuthReply("login", 401, NoUser, "Invalid email or password", FALSE)
                 ELSE AuthReply("login", 200,
                                [id |-> user.id, email |-> user.email, role |-> user.role],
                                "", FALSE)

\* the response of POST /auth/login; "" stands for a missing field
LoginAnswer(email, password) ==
    LET found == {u \in Users : u.email = email}
    IN  IF email = "" \/ password = ""
        THEN AuthReply("login", 400, NoUser, "Missing credentials", FALSE)
        ELSE IF found = {}
        THEN AuthReply("login", 401, NoUser, "Invalid email or password", FALSE)
        ELSE LET user == CHOOSE u \in found : TRUE
             IN  IF ~bcryptCompare(password, user.password_hash)
                 THEN AuthReply("login", 401, NoUser, "Invalid email or password", FALSE)
                 ELSE AuthReply("login", 200,
                                [id |-> user.id, email |-> user.email, role |-> user.role],
                                "", FALSE)

\* POST /auth/login: only a 200 writes req.session.user
Login(email, password) ==
    /\ auth' = LoginAnswer(email, password)
    /\ session' = IF auth'.status = 200 THEN auth'.user ELSE session
    /\ UNCHANGED <<reviewVars, info, clientVars,
                   appointments, nextApptId, business_hours, holiday_hours,
                   nextHolidayId, now, pc, req, resp, avail, admin>>

\* GET /auth/me: req.session?.user || null
Me ==
    /\ auth' = AuthReply("me", 200, session, "", FALSE)
    /\ UNCHANGED <<reviewVars, info, clientVars,
                   appointments, nextApptId, business_hours, holiday_hours,
                   nextHolidayId, session, now, pc, req, resp, avail, admin>>

\* a logout that answers {ok: true} and leaves the session as it is
LogoutKeepsSession ==
    /\ auth' = AuthReply("logout", 200, NoUser, "", TRUE)
    /\ UNCHANGED <<reviewVars, info, clientVars,
                   appointments, nextApptId, business_hours, holiday_hours,
                   nextHolidayId, session, now, pc, req, resp, avail, admin>>

\* POST /auth/logout: req.session.destroy, then {ok: true}
Logout ==
    /\ session' = NoUser
    /\ auth' = AuthReply("logout", 200, NoUser, "", TRUE)
    /\ UNCHANGED <<reviewVars, info, clientVars,
                   appointments, nextApptId, business_hours, holiday_hours,
                   nextHolidayId, now, pc, req, resp, avail, admin>>

\* requireAuth: 0 = next()
requireAuth(user) == IF user # NoUser THEN 0 ELSE 401

\* requireRole(role): 0 = next()
requireRole(user, role) == IF user.role = role THEN 0 ELSE 403

\* requireAuth alone
AdminGuardAuthOnly(user) == requireAuth(user)

\* the middleware chain requireAuth, requireRole("admin") of the admin routes
AdminGuard(user) ==
    IF requireAuth(user) # 0 THEN requireAuth(user) ELSE requireRole(user, "admin")

-----------------------------------------------------------------------------
(* Appointments: POST /api/BookAppointment and PUT /api/appointments/:id *)

Reply(route, status, body) == [route |-> route, status |-> status, body |-> body]
NoReply == Reply("none", 0, {})

\* the synchronous checks of POST /api/BookAppointment; 0 = passed.
\* body.complete stands for name, date, time, duration and type all present.
BookValidate(body) ==
    IF ~body.complete THEN 400
    ELSE IF body.duration \notin {30, 60} THEN 400
    ELSE IF PhoneGiven(body.phoneNumber)
            /\ normalizeNANPTo10(body.phoneNumber.text) = <<>> THEN 400
    ELSE IF ~IsHHMM(Slice5(body.time)) \/ body.date = NoDate THEN 400
    ELSE IF JsTimeValid(Slice5(body.time))
            /\ DateTime(body.date, Slice5(body.time)) < now THEN 400
    ELSE 0

\* phone10 of POST /api/BookAppointment: the column value, null = the empty text
BookPhone10(body) ==
    IF PhoneGiven(body.phoneNumber) THEN normalizeNANPTo10(body.phoneNumber.text)
    ELSE <<>>

\* variant: the conflict query compares the start times only
BookConflictRowsSameStart(date, startHHMM, dur) ==
    { a \in appointments : a.date = date /\ a.time = SqlTime(startHHMM) }

\* conflictSql of POST /api/BookAppointment
BookConflictRows(date, startHHMM, dur) ==
    { a \in appointments :
        /\ a.date = date
        /\ SqlTime(startHHMM) < a.time + a.duration
        /\ SqlTime(startHHMM) + dur > a.time }

\* ids still to be handed out to requests that passed their check
PendingInserts == Cardinality({q \in Req : pc[q] = "book_insert"})

\* the status POST /api/BookAppointment answers before it inserts; 0 = it
\* goes on to the INSERT
BookStatus(body) ==
    IF BookValidate(body) # 0 THEN BookValidate(body)
    ELSE IF BookConflictRows(body.date, Slice5(body.time), body.duration) # {} THEN 409
    ELSE 0

\* POST /api/BookAppointment up to the answer of the conflict query
BookCheck(r, body) ==
    /\ pc[r] = "idle"
    /\ LET status == BookStatus(body)
           startHHMM == Slice5(body.time)
       IN  IF status # 0
           THEN /\ resp' = [resp EXCEPT ![r] = Reply("book", status, {})]
                /\ UNCHANGED <<reviewVars, info, clientVars, pc, req>>
           ELSE /\ nextApptId + PendingInserts <= MaxAppts
                /\ pc' = [pc EXCEPT ![r] = "book_insert"]
                /\ req' = [req EXCEPT ![r] =
                              [kind |-> "book", id |-> 0, date |-> body.date,
                               time |-> SqlTime(startHHMM), duration |-> body.duration,
                               phoneNumber |-> body.phoneNumber,
                               phone10 |-> BookPhone10(body),
                               active |-> "absent", paid |-> "absent"]]
                /\ resp' = [resp EXCEPT ![r] = NoReply]
    /\ UNCHANGED <<reviewVars, info, clientVars,
                   appointments, nextApptId, business_hours, holiday_hours,
                   nextHolidayId, session, now, avail, auth, admin>>

\* variant: the INSERT runs in one transaction with a second conflict query
BookInsertRechecked(r) ==
    /\ pc[r] = "book_insert"
    /\ LET clash == { a \in appointments :
                        /\ a.date = req[r].date
                        /\ req[r].time < a.time + a.duration
                        /\ req[r].time + req[r].duration > a.time }
       IN  IF clash # {}
           THEN /\ resp' = [resp EXCEPT ![r] = Reply("book", 409, {})]
                /\ UNCHANGED <<reviewVars, info, clientVars, appointments, nextApptId>>
           ELSE /\ appointments' = appointments \cup
                       { [id |-> nextApptId, date |-> req[r].date, time |-> req[r].time,
                          duration |-> req[r].duration, phoneNumber |-> req[r].phone10,
                          active |-> 1, paid |-> 0] }
                /\ nextApptId' = nextApptId + 1
                /\ resp' = [resp EXCEPT ![r] = Reply("book", 200, {})]
    /\ pc' = [pc EXCEPT ![r] = "idle"]
    /\ req' = [req EXCEPT ![r] = NoReq]
    /\ UNCHANGED <<reviewVars, info, clientVars,
                   business_hours, holiday_hours, nextHolidayId, session, now,
                   avail, auth, admin>>

\* the INSERT of POST /api/BookAppointment and its 200
BookInsert(r) ==
    /\ pc[r] = "book_insert"
    /\ appointments' = appointments \cup
           { [id |-> nextApptId, date |-> req[r].date, time |-> req[r].time,
              duration |-> req[r].duration, phoneNumber |-> req[r].phone10,
              active |-> 1, paid |-> 0] }
    /\ nextApptId' = nextApptId + 1
    /\ resp' = [resp EXCEPT ![r] = Reply("book", 200, {})]
    /\ pc' = [pc EXCEPT ![r] = "idle"]
    /\ req' = [req EXCEPT ![r] = NoReq]
    /\ UNCHANGED <<reviewVars, info, clientVars,
                   business_hours, holiday_hours, nextHolidayId, session, now,
                   avail, auth, admin>>

\* the synchronous checks of PUT /api/appointments/:id; 0 = passed
UpdateValidate(id, body) ==
    IF id <= 0 THEN 400
    ELSE IF ~body.complete THEN 400
    ELSE IF body.duration \notin {30, 60} THEN 400
    ELSE IF PhoneGiven(body.phoneNumber)
            /\ normalizeNANPTo10(body.phoneNumber.text) = <<>> THEN 400
    ELSE IF body.date = NoDate \/ ~JsTimeValid(Slice5(body.time)) THEN 400
    ELSE IF DateTime(body.date, Slice5(body.time)) < now THEN 400
    ELSE 0

\* variant: the conflict query does not leave out the row being edited
UpdateConflictRowsAllRows(date, apptId, startHHMM, dur) ==
    { a \in appointments :
        /\ a.date = date
        /\ SqlTime(startHHMM) < a.time + a.duration
        /\ SqlTime(startHHMM) + dur > a.time }

\* conflictSql of PUT /api/appointments/:id
UpdateConflictRows(date, apptId, startHHMM, dur) ==
    { a \in appointments :
        /\ a.date = date
        /\ a.id # apptId
        /\ SqlTime(startHHMM) < a.time + a.duration
        /\ SqlTime(startHHMM) + dur > a.time }

\* the status PUT /api/appointments/:id answers before it updates; 0 = it
\* goes on to the UPDATE
UpdateStatus(user, id, body) ==
    IF AdminGuard(user) # 0 THEN AdminGuard(user)
    ELSE IF UpdateValidate(id, body) # 0 THEN UpdateValidate(id, body)
    ELSE IF UpdateConflictRows(body.date, id, Slice5(body.time), body.duration) # {}
    THEN 409
    ELSE 0

\* PUT /api/appointments/:id up to the answer of the conflict query
UpdateCheck(r, id, body) ==
    /\ pc[r] = "idle"
    /\ LET status == UpdateStatus(session, id, body)
           startHHMM == Slice5(body.time)
       IN  IF status # 0
           THEN /\ resp' = [resp EXCEPT ![r] = Reply("update", status, {})]
                /\ UNCHANGED <<reviewVars, info, clientVars, pc, req>>
           ELSE /\ pc' = [pc EXCEPT ![r] = "update_write"]
                /\ req' = [req EXCEPT ![r] =
                              [kind |-> "update", id |-> id, date |-> body.date,
                               time |-> SqlTime(startHHMM), duration |-> body.duration,
                               phoneNumber |-> body.phoneNumber,
                               phone10 |-> BookPhone10(body),
                               active |-> body.active, paid |-> body.paid]]
                /\ resp' = [resp EXCEPT ![r] = NoReply]
    /\ UNCHANGED <<reviewVars, info, clientVars,
                   appointments, nextApptId, business_hours, holiday_hours,
                   nextHolidayId, session, now, avail, auth, admin>>

\* Number(x ? 1 : 0) of a body field that is present
Flag(x) == IF x = "true" THEN 1 ELSE 0

\* variant: an UPDATE that sets phoneNumber, active and paid from the request
\* whether or not it carries them
UpdatedRowAllFields(a, q) ==
    [id |-> a.id, date |-> q.date, time |-> q.time, duration |-> q.duration,
     phoneNumber |-> q.phone10, active |-> Flag(q.active), paid |-> Flag(q.paid)]

\* the row after UPDATE appointments SET ... of the request q
UpdatedRow(a, q) ==
    [id |-> a.id, date |-> q.date, time |-> q.time, duration |-> q.duration,
     phoneNumber |-> IF q.phone10 # <<>> THEN q.phone10 ELSE a.phoneNumber,
     active |-> IF q.active # "absent" THEN Flag(q.active) ELSE a.active,
     paid |-> IF q.paid # "absent" THEN Flag(q.paid) ELSE a.paid]

\* variant: an UPDATE that inserts the row when no row has the id
UpdateWriteUpsert(r) ==
    /\ pc[r] = "update_write"
    /\ appointments' =
           IF \E a \in appointments : a.id = req[r].id
           THEN { IF a.id = req[r].id THEN UpdatedRow(a, req[r]) ELSE a :
                      a \in appointments }
           ELSE appointments \cup
                    { UpdatedRow([id |-> req[r].id,
                                  phoneNumber |-> <<>>, active |-> 1, paid |-> 0],
                                req[r]) }
    /\ pc' = [pc EXCEPT ![r] = "update_select"]
    /\ UNCHANGED <<reviewVars, info, clientVars,
                   nextApptId, business_hours, holiday_hours, nextHolidayId,
                   session, now, req, resp, avail, auth, admin>>

\* the UPDATE of PUT /api/appointments/:id
UpdateWrite(r) ==
    /\ pc[r] = "update_write"
    /\ appointments' =
           { IF a.id = req[r].id THEN UpdatedRow(a, req[r]) ELSE a : a \in appointments }
    /\ pc' = [pc EXCEPT ![r] = "update_select"]
    /\ UNCHANGED <<reviewVars, info, clientVars,
                   nextApptId, business_hours, holiday_hours, nextHolidayId,
                   session, now, req, resp, avail, auth, admin>>

\* SELECT * FROM appointments WHERE id = ? and res.json(rows2[0])
UpdateSelect(r) ==
    /\ pc[r] = "update_select"
    /\ resp' = [resp EXCEPT ![r] =
                   Reply("update", 200, {a \in appointments : a.id = req[r].id})]
    /\ pc' = [pc EXCEPT ![r] = "idle"]
    /\ req' = [req EXCEPT ![r] = NoReq]
    /\ UNCHANGED <<reviewVars, info, clientVars,
                   appointments, nextApptId, business_hours, holiday_hours,
                   nextHolidayId, session, now, avail, auth, admin>>

-----------------------------------------------------------------------------
(* Business hours and holiday overrides: the admin routes *)

\* labels and comments are texts over one-character strings; null and the empty
\* text are both the empty sequence (the code tests them with ! and ||)
NullText == <<>>

RECURSIVE TrimLeft(_)
TrimLeft(s) == IF s # <<>> /\ s[1] = " " THEN TrimLeft(Tail(s)) ELSE s

RECURSIVE TrimRight(_)
TrimRight(s) ==
    IF s # <<>> /\ s[Len(s)] = " " THEN TrimRight(SubSeq(s, 1, Len(s) - 1)) ELSE s

\* String(s).trim()
Trim(s) == TrimRight(TrimLeft(s))

IsDigit(c) == c \in 0..9

\* /^\d{2}:\d{2}(:\d{2})?$/
IsTimeShape(s) ==
    /\ Len(s) \in {5, 8}
    /\ IsDigit(s[1]) /\ IsDigit(s[2]) /\ s[3] = Colon /\ IsDigit(s[4]) /\ IsDigit(s[5])
    /\ Len(s) = 8 => (s[6] = Colon /\ IsDigit(s[7]) /\ IsDigit(s[8]))

\* normalizeTimeHHMMSS: "HH:MM" or "HH:MM:SS" -> "HH:MM:SS", anything else null
normalizeTimeHHMMSS(t) ==
    IF t = NullText THEN NullText
    ELSE IF ~IsTimeShape(t) THEN NullText
    ELSE IF Len(t) = 5 THEN t \o <<Colon, 0, 0>> ELSE t

\* the value a TIME column takes from the text "HH:MM:SS" or from null
TimeColumn(t) == IF t = NullText THEN NoTime ELSE SqlTime(t)

\* isValidWeekday
isValidWeekday(n) == n >= 1 /\ n <= 7

\* isISODate; a malformed or missing date is NoDate
isISODate(d) == d # NoDate

AdminReply(route, status, rows, id) ==
    [route |-> route, status |-> status, rows |-> rows, id |-> id]
NoAdmin == AdminReply("none", 0, <<>>, 0)

\* DATE_FORMAT(t, '%H:%i') of a TIME column
FormatHHMM(t) == IF t = NoTime THEN NullText ELSE HHMM(t \div 60, t % 60)

RECURSIVE SortedRows(_, _)
\* the rows of a set in the order of their keys (Key[r] are distinct tuples of
\* numbers, compared entry by entry)
SortedRows(rows, Key) ==
    IF rows = {} THEN <<>>
    ELSE LET TupleLess(x, y) ==
                 \E i \in 1..Len(x) :
                     x[i] < y[i] /\ \A j \in 1..(i - 1) : x[j] = y[j]
             first == CHOOSE r \in rows :
                          \A q \in rows \ {r} : TupleLess(Key[r], Key[q])
         IN  <<first>> \o SortedRows(rows \ {first}, Key)

\* GET /api/appointments: equality filters on columns, ORDER BY date, time
\* (rows equal in both are listed by id), optional LIMIT
ListAppointments(filters, limit) ==
    /\ LET guard == AdminGuard(session)
           Key == [a \in appointments |-> <<a.date, a.time, a.id>>]
           hits == { a \in appointments :
                       \A f \in filters :
                           \/ f[1] = "date" /\ a.date = f[2]
                           \/ f[1] = "active" /\ a.active = f[2]
                           \/ f[1] = "paid" /\ a.paid = f[2]
                           \/ f[1] = "duration" /\ a.duration = f[2]
                           \/ f[1] = "id" /\ a.id = f[2] }
           sorted == SortedRows(hits, Key)
       IN  IF guard # 0
           THEN admin' = AdminReply("GET appointments", guard, <<>>, 0)
           ELSE admin' = AdminReply("GET appointments", 200,
                             IF limit > 0 /\ limit < Len(sorted)
                             THEN SubSeq(sorted, 1, limit) ELSE sorted, 0)
    /\ UNCHANGED <<reviewVars, info, clientVars,
                   appointments, nextApptId, business_hours, holiday_hours,
                   nextHolidayId, session, now, pc, req, resp, avail, auth>>

\* GET /api/admin/business-hours
BizGet ==
    /\ LET guard == AdminGuard(session)
           Key == [b \in business_hours |-> <<b.week_day>>]
           Shown(b) == [week_day |-> b.week_day, start_time |-> FormatHHMM(b.start_time),
                        end_time |-> FormatHHMM(b.end_time), is_open |-> b.is_open]
           sorted == SortedRows(business_hours, Key)
       IN  IF guard # 0
           THEN admin' = AdminReply("GET business-hours", guard, <<>>, 0)
           ELSE admin' = AdminReply("GET business-hours", 200,
                                    [i \in 1..Len(sorted) |-> Shown(sorted[i])], 0)
    /\ UNCHANGED <<reviewVars, info, clientVars,
                   appointments, nextApptId, business_hours, holiday_hours,
                   nextHolidayId, session, now, pc, req, resp, avail, auth>>

\* INSERT ... ON DUPLICATE KEY UPDATE of a whole business_hours row
UpsertBusinessHours(row) ==
    {b \in business_hours : b.week_day # row.week_day} \cup {row}

\* variant: a PUT that does not compare start and end
BizPutStatusNoOrder(user, day, body) ==
    LET start == normalizeTimeHHMMSS(body.start_time)
        end == normalizeTimeHHMMSS(body.end_time)
    IN  IF AdminGuard(user) # 0 THEN AdminGuard(user)
        ELSE IF ~isValidWeekday(day) THEN 400
        ELSE IF body.is_open /\ (start = NullText \/ end = NullText) THEN 400
        ELSE 200

\* the status of PUT /api/admin/business-hours/:week_day
BizPutStatus(user, day, body) ==
    LET start == normalizeTimeHHMMSS(body.start_time)
        end == normalizeTimeHHMMSS(body.end_time)
    IN  IF AdminGuard(user) # 0 THEN AdminGuard(user)
        ELSE IF ~isValidWeekday(day) THEN 400
        ELSE IF body.is_open /\ (start = NullText \/ end = NullText) THEN 400
        ELSE IF body.is_open /\ ~StrLess(start, end) THEN 400
        ELSE 200

\* PUT /api/admin/business-hours/:week_day
BizPut(day, body) ==
    /\ LET isOpen == body.is_open
           start == normalizeTimeHHMMSS(body.start_time)
           end == normalizeTimeHHMMSS(body.end_time)
           status == BizPutStatus(session, day, body)
       IN  /\ admin' = AdminReply("PUT business-hours", status, <<>>, 0)
           /\ business_hours' =
                  IF status # 200 THEN business_hours
                  ELSE UpsertBusinessHours(
                           [week_day |-> day, start_time |-> TimeColumn(start),
                            end_time |-> TimeColumn(end),
                            is_open |-> IF isOpen THEN 1 ELSE 0])
    /\ UNCHANGED <<reviewVars, info, clientVars,
                   appointments, nextApptId, holiday_hours, nextHolidayId,
                   session, now, pc, req, resp, avail, auth>>

\* variant: a statement that replaces the whole row of the weekday by a closed
\* row without times
CloseWeekdayClearTimes(day) ==
    {b \in business_hours : b.week_day # day}
    \cup {[week_day |-> day, start_time |-> NoTime, end_time |-> NoTime, is_open |-> 0]}

\* the table after INSERT (week_day, is_open) VALUES (?, 0) ON DUPLICATE KEY
\* UPDATE is_open = VALUES(is_open)
CloseWeekday(day) ==
    IF {b \in business_hours : b.week_day = day} = {}
    THEN business_hours \cup
             {[week_day |-> day, start_time |-> NoTime,
               end_time |-> NoTime, is_open |-> 0]}
    ELSE {IF b.week_day = day THEN [b EXCEPT !.is_open = 0] ELSE b :
              b \in business_hours}

\* the status of DELETE /api/admin/business-hours/:week_day
BizDeleteStatus(user, day) ==
    IF AdminGuard(user) # 0 THEN AdminGuard(user)
    ELSE IF ~isValidWeekday(day) THEN 400 ELSE 200

\* DELETE /api/admin/business-hours/:week_day: upserts is_open = 0
BizDelete(day) ==
    /\ LET status == BizDeleteStatus(session, day)
       IN  /\ admin' = AdminReply("DELETE business-hours", status, <<>>, 0)
           /\ business_hours' =
                  IF status # 200 THEN business_hours ELSE CloseWeekday(day)
    /\ UNCHANGED <<reviewVars, info, clientVars,
                   appointments, nextApptId, holiday_hours, nextHolidayId,
                   session, now, pc, req, resp, avail, auth>>

\* COALESCE(end_date, start_date)
EffectiveEnd(h) == IF h.end_date = NoDate THEN h.start_date ELSE h.end_date

\* variant: a SELECT that returns the TIME columns as the driver gives them,
\* "HH:MM:SS"
HolidayShownSeconds(h) ==
    [id |-> h.id, start_date |-> h.start_date, end_date |-> h.end_date,
     holiday |-> h.holiday, comment |-> h.comment,
     is_open |-> (h.is_open = 1),
     start_time |-> IF h.start_time = NoTime THEN NullText
                    ELSE timeColumnText(h.start_time),
     end_time |-> IF h.end_time = NoTime THEN NullText ELSE timeColumnText(h.end_time)]

\* a row as the ranged GET selects and normalizes it
HolidayShown(h) ==
    [id |-> h.id, start_date |-> h.start_date, end_date |-> h.end_date,
     holiday |-> h.holiday, comment |-> h.comment,
     is_open |-> (h.is_open = 1),
     start_time |-> FormatHHMM(h.start_time),
     end_time |-> FormatHHMM(h.end_time)]

\* the rows the ranged GET answers from the table `rows`
HolidayGetAnswer(rows, from, to) ==
    LET Key == [h \in rows |-> <<h.start_date, EffectiveEnd(h), h.id>>]
        hits == {h \in rows : ~(EffectiveEnd(h) < from \/ h.start_date > to)}
        sorted == SortedRows(hits, Key)
    IN  [i \in 1..Len(sorted) |-> HolidayShown(sorted[i])]

\* GET /api/admin/holiday-hours?from=&to=
HolidayGet(from, to) ==
    /\ LET guard == AdminGuard(session)
       IN  IF guard # 0
           THEN admin' = AdminReply("GET holiday-hours", guard, <<>>, 0)
           ELSE IF ~isISODate(from) \/ ~isISODate(to)
           THEN admin' = AdminReply("GET holiday-hours", 400, <<>>, 0)
           ELSE admin' = AdminReply("GET holiday-hours", 200,
                                    HolidayGetAnswer(holiday_hours, from, to), 0)
    /\ UNCHANGED <<reviewVars, info, clientVars,
                   appointments, nextApptId, business_hours, holiday_hours,
                   nextHolidayId, session, now, pc, req, resp, avail, auth>>

\* variant: a validation that does not compare end_date with start_date
HolidayValidateNoSpan(body) ==
    LET open == body.is_open
        st == IF open THEN normalizeTimeHHMMSS(body.start_time) ELSE NullText
        et == IF open THEN normalizeTimeHHMMSS(body.end_time) ELSE NullText
    IN  IF ~isISODate(body.start_date) THEN 400
        ELSE IF Trim(body.holiday) = NullText THEN 400
        ELSE IF open /\ (st = NullText \/ et = NullText) THEN 400
        ELSE IF open /\ ~StrLess(st, et) THEN 400
        ELSE 0

\* the validation POST and PUT /api/admin/holiday-hours share; 0 = passed
HolidayValidate(body) ==
    LET open == body.is_open
        st == IF open THEN normalizeTimeHHMMSS(body.start_time) ELSE NullText
        et == IF open THEN normalizeTimeHHMMSS(body.end_time) ELSE NullText
    IN  IF ~isISODate(body.start_date) THEN 400
        ELSE IF Trim(body.holiday) = NullText THEN 400
        ELSE IF open /\ (st = NullText \/ et = NullText) THEN 400
        ELSE IF open /\ ~StrLess(st, et) THEN 400
        ELSE IF body.end_date # NoDate /\ body.end_date < body.start_date THEN 400
        ELSE 0

\* the column values POST and PUT /api/admin/holiday-hours write
HolidayRow(id, body) ==
    LET open == body.is_open
        st == IF open THEN normalizeTimeHHMMSS(body.start_time) ELSE NullText
        et == IF open THEN normalizeTimeHHMMSS(body.end_time) ELSE NullText
    IN  [id |-> id, start_date |-> body.start_date, end_date |-> body.end_date,
         holiday |-> Trim(body.holiday),
         comment |-> IF body.comment # NullText THEN Trim(body.comment) ELSE NullText,
         is_open |-> IF open THEN 1 ELSE 0,
         start_time |-> TimeColumn(st), end_time |-> TimeColumn(et)]

\* the status of POST /api/admin/holiday-hours
HolidayPostStatus(user, body) ==
    IF AdminGuard(user) # 0 THEN AdminGuard(user)
    ELSE IF HolidayValidate(body) # 0 THEN HolidayValidate(body)
    ELSE 200

\* POST /api/admin/holiday-hours
HolidayPost(body) ==
    /\ LET status == HolidayPostStatus(session, body)
       IN  /\ status = 200 => nextHolidayId <= MaxHolidays
           /\ admin' = AdminReply("POST holiday-hours", status, <<>>,
                                  IF status = 200 THEN nextHolidayId ELSE 0)
           /\ holiday_hours' =
                  IF status # 200 THEN holiday_hours
                  ELSE holiday_hours \cup {HolidayRow(nextHolidayId, body)}
           /\ nextHolidayId' = IF status # 200 THEN nextHolidayId ELSE nextHolidayId + 1
    /\ UNCHANGED <<reviewVars, info, clientVars,
                   appointments, nextApptId, business_hours, session, now, pc, req,
                   resp, avail, auth>>

\* the status of PUT /api/admin/holiday-hours/:id on the table `rows`
HolidayPutStatus(user, rows, id, body) ==
    IF AdminGuard(user) # 0 THEN AdminGuard(user)
    ELSE IF id <= 0 THEN 400
    ELSE IF HolidayValidate(body) # 0 THEN HolidayValidate(body)
    ELSE IF {h \in rows : h.id = id} = {} THEN 404
    ELSE 200

\* the table after UPDATE holiday_hours SET ... WHERE id = ?
HolidayPutRows(rows, id, body) ==
    IF {h \in rows : h.id = id} = {} THEN rows
    ELSE {h \in rows : h.id # id} \cup {HolidayRow(id, body)}

\* PUT /api/admin/holiday-hours/:id
HolidayPut(id, body) ==
    /\ LET status == HolidayPutStatus(session, holiday_hours, id, body)
       IN  /\ admin' = AdminReply("PUT holiday-hours", status, <<>>, 0)
           /\ holiday_hours' =
                  IF status # 200 THEN holiday_hours
                  ELSE HolidayPutRows(holiday_hours, id, body)
    /\ UNCHANGED <<reviewVars, info, clientVars,
                   appointments, nextApptId, business_hours, nextHolidayId,
                   session, now, pc, req, resp, avail, auth>>

\* DELETE /api/admin/holiday-hours/:id
HolidayDelete(id) ==
    /\ LET guard == AdminGuard(session)
           matched == {h \in holiday_hours : h.id = id}
           status == IF guard # 0 THEN guard
                     ELSE IF id <= 0 THEN 400
                     ELSE IF matched = {} THEN 404
                     ELSE 200
       IN  /\ admin' = AdminReply("DELETE holiday-hours", status, <<>>, 0)
           /\ holiday_hours' =
                  IF status # 200 THEN holiday_hours ELSE holiday_hours \ matched
    /\ UNCHANGED <<reviewVars, info, clientVars,
                   appointments, nextApptId, business_hours, nextHolidayId,
                   session, now, pc, req, resp, avail, auth>>

-----------------------------------------------------------------------------
(* GET /api/availability *)

\* parseInt(req.query.slotMinutes, 10): <<n>> for an integer n, the empty tuple
\* for NaN (a missing or non-numeric parameter)
NaN == <<>>

\* the "." of a query text
Dot == 12

RECURSIVE DigitPrefix(_)
\* the digits a text starts with
DigitPrefix(s) ==
    IF s # <<>> /\ s[1] \in 0..9 THEN <<s[1]>> \o DigitPrefix(Tail(s)) ELSE <<>>

\* parseInt(text, 10): an optional "-", then the digits up to the first other
\* character; NaN without a digit.  A missing parameter is the empty text.
parseInt10(s) ==
    LET negative == s # <<>> /\ s[1] = Dash
        digits == DigitPrefix(IF negative THEN Tail(s) ELSE s)
    IN  IF digits = <<>> THEN NaN
        ELSE <<IF negative THEN 0 - NumberOf(digits) ELSE NumberOf(digits)>>

\* Math.max(5, parseInt(...) || 30): NaN and 0 are falsy
SlotMinutes(parsed) ==
    LET n == IF parsed = NaN THEN 30 ELSE IF parsed[1] = 0 THEN 30 ELSE parsed[1]
    IN  IF n < 5 THEN 5 ELSE n

\* getDay() itself: Sunday = 0 ... Saturday = 6
jsWeekdaySunday0(date) == date % 7

\* jsWeekdayMonday1to7: getDay() is 0 for the Sundays, the days 0, 7, 14, ...
jsWeekdayMonday1to7(date) ==
    LET n == date % 7 IN IF n = 0 THEN 7 ELSE n

\* a WHERE that matches the start date only
HolidayMatchesStartOnly(date) ==
    {h \in holiday_hours : h.start_date = date}

\* the rows holidaySql's WHERE keeps
HolidayMatches(date) ==
    {h \in holiday_hours : h.start_date <= date /\ EffectiveEnd(h) >= date}

\* an ORDER BY id alone
HolidayOrderKeyById(h) == <<0, 0, h.id>>

\* holidaySql's ORDER BY: single-day rows first, then DATEDIFF, then id
HolidayOrderKey(h) ==
    <<IF EffectiveEnd(h) = h.start_date THEN 0 ELSE 1,
      EffectiveEnd(h) - h.start_date,
      h.id>>

\* hRows of holidaySql (ORDER BY ... LIMIT 1): empty or one row
HolidayRows(date) ==
    LET sorted == SortedRows(HolidayMatches(date),
                            [h \in holiday_hours |-> HolidayOrderKey(h)])
    IN  IF sorted = <<>> THEN {} ELSE {sorted[1]}

RECURSIVE Candidates(_, _, _)
\* for (t = start; addMinutesHHMM(t, slot) <= end; t = addMinutesHHMM(t, slot))
Candidates(t, slotMinutes, end) ==
    IF StrLeq(addMinutesHHMM(t, slotMinutes), end)
    THEN <<t>> \o Candidates(addMinutesHHMM(t, slotMinutes), slotMinutes, end)
    ELSE <<>>

\* candidates.filter(t => new Date(`${date}T${t}:00`) > now) when date is today
Future(date, candidates) ==
    IF date = Today
    THEN SelectSeq(candidates, LAMBDA t : JsTimeValid(t) /\ DateTime(date, t) > now)
    ELSE candidates

\* overlaps(s, e, S, E): s < E && e > S on "HH:MM" texts
overlaps(s, e, S, E) == StrLess(s, E) /\ StrLess(S, e)

\* existing: the rows of the date as texts {start, end}
Existing(date) ==
    { [start |-> toHHMM(timeColumnText(a.time)),
       end |-> addMinutesHHMM(toHHMM(timeColumnText(a.time)), a.duration)] :
      a \in {x \in appointments : x.date = date} }

\* future.filter(t => no existing interval overlaps [t, t + slotMinutes))
Free(date, slotMinutes, future) ==
    SelectSeq(future,
              LAMBDA t : \A ex \in Existing(date) :
                  ~overlaps(t, addMinutesHHMM(t, slotMinutes), ex.start, ex.end))

AvailReply(status, date, slotMinutes, times, meta, label, comment, flag) ==
    [status |-> status, date |-> date, slotMinutes |-> slotMinutes, times |-> times,
     meta |-> meta, holidayLabel |-> label, holidayComment |-> comment,
     isOpenOverride |-> flag]
NoAvail == AvailReply(0, NoDate, 0, <<>>, FALSE, NullText, NullText, FALSE)

\* handleWithWindow(startTimeStr, endTimeStr, meta): the times of the answer
WindowTimes(date, slotMinutes, start_time, end_time) ==
    IF start_time = NoTime \/ end_time = NoTime THEN <<>>
    ELSE LET start == toHHMM(timeColumnText(start_time))
             end == toHHMM(timeColumnText(end_time))
             future == Future(date, Candidates(start, slotMinutes, end))
         IN  IF future = <<>> THEN <<>> ELSE Free(date, slotMinutes, future)

\* the answer of GET /api/availability?date=&slotMinutes=
AvailabilityAnswer(date, parsed) ==
    LET slotMinutes == SlotMinutes(parsed)
        hRows == HolidayRows(date)
        h == CHOOSE x \in hRows : TRUE
        weekDay == jsWeekdayMonday1to7(date)
        bRows == {b \in business_hours : b.week_day = weekDay}
        b == CHOOSE x \in bRows : TRUE
    IN  IF ~isISODate(date)
        THEN AvailReply(400, NoDate, 0, <<>>, FALSE, NullText, NullText, FALSE)
        ELSE IF hRows # {} /\ h.is_open = 0
        THEN AvailReply(200, date, slotMinutes, <<>>, TRUE, h.holiday, h.comment, FALSE)
        ELSE IF hRows # {} /\ h.is_open = 1
        THEN AvailReply(200, date, slotMinutes,
                        WindowTimes(date, slotMinutes, h.start_time, h.end_time),
                        TRUE, h.holiday, h.comment, TRUE)
        ELSE IF bRows = {}
        THEN AvailReply(200, date, slotMinutes, <<>>, FALSE, NullText, NullText, FALSE)
        ELSE AvailReply(200, date, slotMinutes,
                        WindowTimes(date, slotMinutes, b.start_time, b.end_time),
                        FALSE, NullText, NullText, FALSE)

\* GET /api/availability
Availability(date, parsed) ==
    /\ avail' = AvailabilityAnswer(date, parsed)
    /\ UNCHANGED <<reviewVars, info, clientVars,
                   appointments, nextApptId, business_hours, holiday_hours,
                   nextHolidayId, session, now, pc, req, resp, auth, admin>>

-----------------------------------------------------------------------------
(* GET /api/holiday-info?date= as each of the two adapters serves it: the
   on-demand adapter api/[...all].js and the persistent listener
   appointment-database/index.js *)

InfoReply(adapter, status, exists, row) ==
    [adapter |-> adapter, status |-> status, exists |-> exists, row |-> row]
NoInfo == InfoReply("none", 0, FALSE, <<>>)

\* the fields of the body when a row was found
InfoRow(h) ==
    <<[holiday |-> h.holiday, comment |-> h.comment, is_open |-> (h.is_open = 1),
       start_time |-> FormatHHMM(h.start_time),
       end_time |-> FormatHHMM(h.end_time)]>>

\* api/[...all].js: the override that applies on the date, chosen as
\* availability chooses it
HolidayInfoAnswer(date) ==
    IF ~isISODate(date) THEN InfoReply("on-demand", 400, FALSE, <<>>)
    ELSE IF HolidayRows(date) = {} THEN InfoReply("on-demand", 200, FALSE, <<>>)
    ELSE InfoReply("on-demand", 200, TRUE, InfoRow(CHOOSE h \in HolidayRows(date) : TRUE))

\* appointment-database/index.js: the query filters on `date`, which is not a
\* column of the ranged table the other routes write.  The driver reports the
\* unknown column and the route answers 500; on a table that still had such a
\* column from an earlier layout no INSERT of these routes would set it, and
\* the route would find no row.  The answers the route can give:
ListenerHolidayInfoAnswers(date) ==
    IF ~isISODate(date) THEN {InfoReply("listener", 400, FALSE, <<>>)}
    ELSE {InfoReply("listener", 500, FALSE, <<>>),
          InfoReply("listener", 200, FALSE, <<>>)}

HolidayInfo(date) ==
    /\ info' = HolidayInfoAnswer(date)
    /\ UNCHANGED <<reviewVars, clientVars, appointments, nextApptId, business_hours, holiday_hours,
                   nextHolidayId, session, now, pc, req, resp, avail, auth, admin>>

ListenerHolidayInfo(date) ==
    /\ \E answer \in ListenerHolidayInfoAnswers(date) : info' = answer
    /\ UNCHANGED <<reviewVars, clientVars, appointments, nextApptId, business_hours, holiday_hours,
                   nextHolidayId, session, now, pc, req, resp, avail, auth, admin>>

-----------------------------------------------------------------------------
(* Reviews: GET and POST /api/reviews.  A JSON value of the body is a record
   of its kind ("absent", "null", "true", "false", "number", "text"), its
   number in halves (so that 4.5 is 9) and its text. *)

Absent == [kind |-> "absent", halves |-> 0, text |-> <<>>]
JsonNull == [kind |-> "null", halves |-> 0, text |-> <<>>]
JsonTrue == [kind |-> "true", halves |-> 0, text |-> <<>>]
JsonNumber(h) == [kind |-> "number", halves |-> h, text |-> <<>>]
JsonText(t) == [kind |-> "text", halves |-> 0, text |-> t]

\* Number(v) in halves, NaN when v is no number: a text of digits is its
\* number, "" is 0, true is 1, null is 0, undefined is NaN
JsNumber(v) ==
    CASE v.kind = "number" -> <<v.halves>>
      [] v.kind = "text" ->
             IF \A i \in 1..Len(v.text) : IsDigit(v.text[i])
             THEN <<2 * NumberOf(v.text)>> ELSE NaN
      [] v.kind = "true" -> <<2>>
      [] v.kind \in {"false", "null"} -> <<0>>
      [] OTHER -> NaN

\* Number.isInteger(n)
IsInteger(n) == n # NaN /\ n[1] % 2 = 0

ReviewReply(route, status, body) == [route |-> route, status |-> status, body |-> body]
NoReview == ReviewReply("none", 0, <<>>)

\* variant: a rating check without the upper limit
ReviewValidateNoMax(body) ==
    LET ratingNum == JsNumber(body.Rating)
    IN  IF ~IsInteger(ratingNum) \/ ratingNum[1] < 2 THEN 400
        ELSE IF body.TypeOfMassage.kind # "text"
                    \/ Trim(body.TypeOfMassage.text) = <<>> THEN 400
        ELSE IF Len(body.TypeOfMassage.text) > 50 THEN 400
        ELSE IF body.Comments.kind \notin {"absent", "null", "text"} THEN 400
        ELSE IF body.Comments.kind = "text" /\ Len(body.Comments.text) > 500 THEN 400
        ELSE 0

\* the checks of POST /api/reviews; 0 = passed
ReviewValidate(body) ==
    LET ratingNum == JsNumber(body.Rating)
    IN  IF ~IsInteger(ratingNum) \/ ratingNum[1] < 2 \/ ratingNum[1] > 10 THEN 400
        ELSE IF body.TypeOfMassage.kind # "text"
                    \/ Trim(body.TypeOfMassage.text) = <<>> THEN 400
        ELSE IF Len(body.TypeOfMassage.text) > 50 THEN 400
        ELSE IF body.Comments.kind \notin {"absent", "null", "text"} THEN 400
        ELSE IF body.Comments.kind = "text" /\ Len(body.Comments.text) > 500 THEN 400
        ELSE 0

\* the status of POST /api/reviews
ReviewPostStatus(body) == IF ReviewValidate(body) # 0 THEN 400 ELSE 201

\* the row INSERT INTO Reviews (Rating, TypeOfMassage, Comments) creates;
\* Comments?.trim() || null
ReviewRow(id, body) ==
    [ReviewID |-> id,
     Rating |-> JsNumber(body.Rating)[1] \div 2,
     TypeOfMassage |-> Trim(body.TypeOfMassage.text),
     Comments |-> IF body.Comments.kind = "text" THEN Trim(body.Comments.text)
                  ELSE NullText,
     CreatedAt |-> now]

\* POST /api/reviews: validate, insert, re-read the row by its id
ReviewPost(body) ==
    /\ LET status == ReviewPostStatus(body)
           created == ReviewRow(nextReviewId, body)
       IN  /\ status = 201 => nextReviewId <= MaxReviews
           /\ reviews' = IF status = 201 THEN reviews \cup {created} ELSE reviews
           /\ nextReviewId' = IF status = 201 THEN nextReviewId + 1 ELSE nextReviewId
           /\ review' =
                  IF status # 201 THEN ReviewReply("POST reviews", status, <<>>)
                  ELSE LET rows == {r \in reviews' : r.ReviewID = nextReviewId}
                       IN  ReviewReply("POST reviews", 201,
                                       IF rows = {} THEN <<>>
                                       ELSE <<CHOOSE r \in rows : TRUE>>)
    /\ UNCHANGED <<clientVars, appointments, nextApptId, business_hours, holiday_hours,
                   nextHolidayId, session, now, pc, req, resp, avail, auth, admin,
                   info>>

\* GET /api/reviews?limit=: newest first, the first `limit` rows when
\* parseInt(limit) is a positive integer
ReviewList(limit) ==
    /\ LET Key == [r \in reviews |-> <<0 - r.CreatedAt, 0 - r.ReviewID>>]
           all == SortedRows(reviews, Key)
           rows == IF limit # NaN /\ limit[1] > 0 /\ limit[1] < Len(all)
                   THEN SubSeq(all, 1, limit[1]) ELSE all
       IN  review' = ReviewReply("GET reviews", 200, rows)
    /\ UNCHANGED <<clientVars, appointments, nextApptId, business_hours, holiday_hours,
                   nextHolidayId, session, now, pc, req, resp, avail, auth, admin,
                   reviews, nextReviewId, info>>

\* the clock moves on
Tick(t) ==
    /\ t > now
    /\ now' = t
    /\ UNCHANGED <<reviewVars, info, clientVars,
                   appointments, nextApptId, business_hours, holiday_hours,
                   nextHolidayId, session, pc, req, resp, avail, auth, admin>>

-----------------------------------------------------------------------------
(* The page: AuthContext, AdminRoute and the routes of App *)

Paths == {"/", "/login", "/BookAppointment", "/Management", "/AllAppointments"}

\* the routes App wraps in AdminRoute
GuardedPaths == {"/Management", "/AllAppointments"}

\* AdminRoute, if it only asked for a user
AdminRouteAnyUser(user, route) ==
    IF user = NoUser THEN "/login" ELSE route

\* AdminRoute: what is on screen for a guarded route, as the route shown
AdminRoute(user, route) ==
    IF user = NoUser THEN "/login"
    ELSE IF user.role # "admin" THEN "/"
    ELSE route

\* App: the route on screen once the router has rendered `route`
Rendered(user, route) ==
    IF route \in GuardedPaths THEN AdminRoute(user, route) ELSE route

\* refresh(): a GET /auth/me on its way; `thenHome` marks the one Login awaits
\* before nav('/')
MeRequest(thenHome) == [served |-> FALSE, user |-> NoUser, thenHome |-> thenHome]

\* the state of the BookAppointment component when it mounts: "" is NoDate for
\* the date, the empty text for the time and the phone number, 0 for the duration
NoFormData == [date |-> NoDate, time |-> NullText, name |-> "", phoneNumber |-> <<>>,
               email |-> "", duration |-> 0, type |-> "", comments |-> ""]
\* holidayInfo null
NoHolidayInfo == [none |-> TRUE, label |-> NullText, isOpenOverride |-> "null"]

\* the state of the AllAppointments component when it mounts: editing null
NoEditing == 0
NoEditForm == [date |-> NoDate, duration |-> 30]

WizardMounts ==
    /\ step' = "date"
    /\ formData' = NoFormData
    /\ viewMonth' = 0
    /\ availableTimes' = <<>>
    /\ loadingTimes' = FALSE
    /\ timesError' = NullText
    /\ holidayInfo' = NoHolidayInfo
    /\ fetches' = {}
    /\ submits' = {}

ModalMounts ==
    /\ editing' = NoEditing
    /\ editForm' = NoEditForm
    /\ bookedTimesForEdit' = {}
    /\ lookups' = {}

\* Routes: a change of the route on screen unmounts the page component and
\* mounts the one of the new route, with the state of its first render
RouteShown ==
    IF path' # path THEN WizardMounts /\ ModalMounts
    ELSE UNCHANGED <<wizardVars, modalVars>>

\* the page after its first render at "/": AuthProvider holds null and its
\* effect has sent the first GET /auth/me
ClientInit ==
    /\ clientUser = NoUser
    /\ path = "/"
    /\ requested = "/"
    /\ meRequests = {MeRequest(FALSE)}
    /\ step = "date"
    /\ formData = NoFormData
    /\ viewMonth = 0
    /\ availableTimes = <<>>
    /\ loadingTimes = FALSE
    /\ timesError = NullText
    /\ holidayInfo = NoHolidayInfo
    /\ fetches = {}
    /\ submits = {}
    /\ editing = NoEditing
    /\ editForm = NoEditForm
    /\ bookedTimesForEdit = {}
    /\ lookups = {}

serverVars == <<appointments, nextApptId, business_hours, holiday_hours,
                nextHolidayId, session, now, pc, req, resp, avail, auth, admin,
                reviews, nextReviewId, review, info>>

\* the browser loads the page at `route`: AuthProvider starts from null, the
\* routes render at once, and the effect of AuthProvider sends GET /auth/me
OpenPage(route) ==
    /\ clientUser' = NoUser
    /\ requested' = route
    /\ path' = Rendered(NoUser, route)
    /\ meRequests' = {MeRequest(FALSE)}
    /\ WizardMounts
    /\ ModalMounts
    /\ UNCHANGED serverVars

\* a link or a navigate() inside the page
Go(route) ==
    /\ route # path
    /\ path' = Rendered(clientUser, route)
    /\ RouteShown
    /\ UNCHANGED <<serverVars, clientUser, requested, meRequests>>

\* the server answers one GET /auth/me of the page
MeServed(r) ==
    /\ r \in meRequests
    /\ ~r.served
    /\ auth' = AuthReply("me", 200, session, "", FALSE)
    /\ meRequests' = (meRequests \ {r})
                        \cup {[served |-> TRUE, user |-> auth'.user, thenHome |-> r.thenHome]}
    /\ UNCHANGED <<reviewVars, info, appointments, nextApptId, business_hours,
                   holiday_hours, nextHolidayId, session, now, pc, req, resp, avail,
                   admin, clientUser, path, requested, wizardVars, modalVars>>

\* refresh() resumes: setUser(the answer), the routes render again, and the
\* Login page that awaited it goes to "/"
MeArrives(r) ==
    /\ r \in meRequests
    /\ r.served
    /\ meRequests' = meRequests \ {r}
    /\ clientUser' = r.user
    /\ path' = Rendered(r.user, IF r.thenHome THEN "/" ELSE path)
    /\ RouteShown
    /\ UNCHANGED <<serverVars, requested>>

\* Login.onSubmit: POST /auth/login, and refresh() when the answer is ok
ClientLogin(email, password) ==
    /\ path = "/login"
    /\ auth' = LoginAnswer(email, password)
    /\ session' = IF auth'.status = 200 THEN auth'.user ELSE session
    /\ meRequests' = IF auth'.status = 200
                     THEN meRequests \cup {MeRequest(TRUE)} ELSE meRequests
    /\ UNCHANGED <<reviewVars, info, appointments, nextApptId, business_hours,
                   holiday_hours, nextHolidayId, now, pc, req, resp, avail, admin,
                   clientUser, path, requested, wizardVars, modalVars>>

\* NavBar: the logout button, shown while a user is held: POST /auth/logout,
\* then logout() of the context
ClientLogout ==
    /\ clientUser # NoUser
    /\ session' = NoUser
    /\ auth' = AuthReply("logout", 200, NoUser, "", TRUE)
    /\ clientUser' = NoUser
    /\ path' = Rendered(NoUser, path)
    /\ RouteShown
    /\ UNCHANGED <<reviewVars, info, appointments, nextApptId, business_hours,
                   holiday_hours, nextHolidayId, now, pc, req, resp, avail, admin,
                   requested, meRequests>>

-----------------------------------------------------------------------------
(* The page /BookAppointment: the three-step wizard of Login.tsx *)

PlusSign == 13

\* isValidNANP: ten digits, or eleven that start with 1
isValidNANP(raw) ==
    LET d == onlyDigits(raw)
    IN  Len(d) = 10 \/ (Len(d) = 11 /\ d[1] = 1)

\* toE164: "+1" and ten digits, "+" and eleven digits, else null (the empty text)
toE164(raw) ==
    LET d == onlyDigits(raw)
    IN  IF Len(d) = 10 THEN <<PlusSign, 1>> \o d
        ELSE IF Len(d) = 11 /\ d[1] = 1 THEN <<PlusSign>> \o d
        ELSE <<>>

\* isPastDateISO: the date lies before the day of the clock
isPastDateISO(date) == date < Today

\* an availability request of the effect: the date it asks for, and whether
\* its AbortController has been aborted
LiveFetch(date) == [date |-> date, aborted |-> FALSE]

\* the effect's cleanup left out: nothing is aborted
AbortNothing(requests) == requests

\* the cleanup of the effect, ac.abort(): the request of the effect's last
\* run is aborted (every earlier one already is)
Abort(requests) == {[f EXCEPT !.aborted = TRUE] : f \in requests}

\* the effect on [formData.date, step], run after a render in which one of
\* the two changed (`ran`): the cleanup of its last run, then its body with
\* the new date and step
AvailabilityEffect(ran, date, newStep) ==
    IF ~ran
    THEN UNCHANGED <<loadingTimes, timesError, fetches>>
    ELSE IF date = NoDate \/ newStep # "time"
    THEN /\ fetches' = Abort(fetches)
         /\ UNCHANGED <<loadingTimes, timesError>>
    ELSE /\ fetches' = Abort(fetches) \cup {LiveFetch(date)}
         /\ loadingTimes' = TRUE
         /\ timesError' = NullText

\* setTimesError("Couldn't load available times. Try again.")
LoadError == <<"C", "o", "u", "l", "d", "n", "'", "t">>

\* handlePickDate, if it kept the time picked before
PickDateKeepsTime(date) ==
    /\ path = "/BookAppointment"
    /\ date # NoDate
    /\ ~isPastDateISO(date)
    /\ formData' = [formData EXCEPT !.date = date]
    /\ availableTimes' = <<>>
    /\ holidayInfo' = NoHolidayInfo
    /\ step' = "time"
    /\ AvailabilityEffect(date # formData.date \/ step # "time", date, "time")
    /\ UNCHANGED <<serverVars, guardVars, modalVars, viewMonth, submits>>

\* handlePickDate(iso) of a calendar cell, shown in every step
PickDate(date) ==
    /\ path = "/BookAppointment"
    /\ date # NoDate
    /\ ~isPastDateISO(date)
    /\ formData' = [formData EXCEPT !.date = date, !.time = NullText]
    /\ availableTimes' = <<>>
    /\ holidayInfo' = NoHolidayInfo
    /\ step' = "time"
    /\ AvailabilityEffect(date # formData.date \/ step # "time", date, "time")
    /\ UNCHANGED <<serverVars, guardVars, modalVars, viewMonth, submits>>

\* the time step shows the buttons of availableTimes
ShowsTimes ==
    /\ path = "/BookAppointment" /\ step = "time"
    /\ ~loadingTimes /\ timesError = NullText
    /\ availableTimes # <<>>

\* the time step shows "No times available for this date"
ShowsNoTimes ==
    /\ path = "/BookAppointment" /\ step = "time"
    /\ ~loadingTimes /\ timesError = NullText
    /\ availableTimes = <<>>
    /\ ~(holidayInfo.label # NullText /\ holidayInfo.isOpenOverride = "false")

\* handlePickTime(t) of a button of the time step
PickTime(t) ==
    /\ ShowsTimes
    /\ \E i \in 1..Len(availableTimes) : availableTimes[i] = t
    /\ formData' = [formData EXCEPT !.time = t]
    /\ step' = "details"
    /\ AvailabilityEffect(TRUE, formData.date, "details")
    /\ UNCHANGED <<serverVars, guardVars, modalVars, viewMonth, availableTimes,
                   holidayInfo, submits>>

\* the "Change time" button of the details step: setStep("time")
ChangeTime ==
    /\ path = "/BookAppointment" /\ step = "details"
    /\ step' = "time"
    /\ AvailabilityEffect(TRUE, formData.date, "time")
    /\ UNCHANGED <<serverVars, guardVars, modalVars, viewMonth, formData,
                   availableTimes, holidayInfo, submits>>

\* handleFieldChange of an input of the details step
FieldChange(name, value) ==
    /\ path = "/BookAppointment" /\ step = "details"
    /\ name \in {"name", "phoneNumber", "email", "duration", "type", "comments"}
    /\ formData[name] # value
    /\ formData' = [formData EXCEPT ![name] = value]
    /\ UNCHANGED <<serverVars, guardVars, modalVars, step, viewMonth, availableTimes,
                   loadingTimes, timesError, holidayInfo, fetches, submits>>

\* the month buttons of the calendar: setViewMonth(addMonths(m, n))
ChangeMonth(n) ==
    /\ path = "/BookAppointment"
    /\ viewMonth + n \in 0..1
    /\ viewMonth' = viewMonth + n
    /\ UNCHANGED <<serverVars, guardVars, modalVars, step, formData, availableTimes,
                   loadingTimes, timesError, holidayInfo, fetches, submits>>

\* the availability request of the effect is answered: GET /api/availability
\* with slotMinutes=30, then the rest of the effect's async function. An
\* answer that is not ok for a well-formed date is not ok for the two other
\* request shapes either, and ends in the catch.
FetchAnswered(f) ==
    /\ f \in fetches
    /\ ~f.aborted
    /\ avail' = AvailabilityAnswer(f.date, <<30>>)
    /\ IF avail'.status = 200
       THEN /\ availableTimes' = avail'.times
            /\ holidayInfo' =
                  [none |-> FALSE,
                   label |-> IF avail'.meta THEN avail'.holidayLabel ELSE NullText,
                   isOpenOverride |-> IF ~avail'.meta THEN "null"
                                      ELSE IF avail'.isOpenOverride THEN "true"
                                      ELSE "false"]
            /\ UNCHANGED timesError
       ELSE /\ timesError' = LoadError
            /\ UNCHANGED <<availableTimes, holidayInfo>>
    /\ loadingTimes' = FALSE
    /\ fetches' = fetches \ {f}
    /\ UNCHANGED <<reviewVars, info, appointments, nextApptId, business_hours,
                   holiday_hours, nextHolidayId, session, now, pc, req, resp, auth,
                   admin, guardVars, modalVars, step, formData, viewMonth, submits>>

\* an aborted request rejects with AbortError: the catch leaves the error
\* alone, the finally runs setLoadingTimes(false)
FetchAborted(f) ==
    /\ f \in fetches
    /\ f.aborted
    /\ loadingTimes' = FALSE
    /\ fetches' = fetches \ {f}
    /\ UNCHANGED <<serverVars, guardVars, modalVars, step, formData, viewMonth,
                   availableTimes, timesError, holidayInfo, submits>>

\* the body handleSubmit posts: the form data with the phone number in E.164
SubmitBody ==
    [complete |-> formData.name # "" /\ formData.type # "",
     date |-> formData.date, time |-> formData.time, duration |-> formData.duration,
     phoneNumber |-> PhoneText(toE164(formData.phoneNumber))]

\* handleSubmit up to the fetch: the inputs marked required are filled, the
\* checks pass, and POST /api/BookAppointment is sent
Submit ==
    /\ path = "/BookAppointment" /\ step = "details"
    /\ formData.name # "" /\ formData.phoneNumber # <<>>
    /\ formData.date # NoDate /\ formData.time # NullText
    /\ formData.duration # 0
    /\ isValidNANP(formData.phoneNumber)
    /\ toE164(formData.phoneNumber) # <<>>
    /\ formData.type # ""
    /\ ~(DateTime(formData.date, formData.time) < now)
    /\ \E k \in 1..MaxSubmits :
          /\ \A s \in submits : s.k # k
          /\ submits' = submits \cup {[k |-> k, body |-> SubmitBody]}
    /\ UNCHANGED <<serverVars, guardVars, modalVars, step, formData, viewMonth,
                   availableTimes, loadingTimes, timesError, holidayInfo, fetches>>

\* POST /api/BookAppointment is answered and handleSubmit resumes: on an ok
\* answer the form is reset and the wizard returns to the date step, else
\* only an alert is shown
SubmitAnswered(s) ==
    /\ s \in submits
    /\ \A q \in Req : pc[q] = "idle"
    /\ submits' = submits \ {s}
    /\ LET status == BookStatus(s.body)
       IN  IF status = 0
           THEN /\ nextApptId <= MaxAppts
                /\ appointments' = appointments \cup
                       { [id |-> nextApptId, date |-> s.body.date,
                          time |-> SqlTime(Slice5(s.body.time)),
                          duration |-> s.body.duration,
                          phoneNumber |-> BookPhone10(s.body),
                          active |-> 1, paid |-> 0] }
                /\ nextApptId' = nextApptId + 1
                /\ resp' = [resp EXCEPT !["r1"] = Reply("book", 200, {})]
                /\ formData' = NoFormData
                /\ availableTimes' = <<>>
                /\ holidayInfo' = NoHolidayInfo
                /\ step' = "date"
                /\ AvailabilityEffect(TRUE, NoDate, "date")
           ELSE /\ resp' = [resp EXCEPT !["r1"] = Reply("book", status, {})]
                /\ UNCHANGED <<appointments, nextApptId, formData, availableTimes,
                               holidayInfo, step, loadingTimes, timesError, fetches>>
    /\ UNCHANGED <<reviewVars, info, business_hours, holiday_hours, nextHolidayId,
                   session, now, pc, req, avail, auth, admin, guardVars, modalVars,
                   viewMonth>>

-----------------------------------------------------------------------------
(* The page /AllAppointments: the edit modal and its conflict lookup *)

\* buildTimeOptions(false): 09:00, 10:00 ... 21:00, as minutes of the day
HourSlots == {60 * (9 + i) : i \in 0..12}

\* the methods the backend registers a handler for at /api/availability
AvailabilityMethods == {"GET"}

\* the status a request to /api/availability gets: the handler's, or the 404
\* of a path and method without a route
AvailabilityRouteStatus(method, date) ==
    IF method \in AvailabilityMethods
    THEN AvailabilityAnswer(date, NaN).status
    ELSE 404

\* the conflict lookup of the effect: POST /api/availability with the date,
\* the duration and excludeId
Lookup(id, form) == [excludeId |-> id, date |-> form.date, duration |-> form.duration]

\* the effect on [editing, editForm.date, editForm.duration], run after a
\* render in which one of them changed: the cleanup aborts the lookup of its
\* last run, whose catch ignores the AbortError; then its body
ConflictEffect(id, form) ==
    IF id = NoEditing \/ form.date = NoDate \/ form.duration = 0
    THEN /\ bookedTimesForEdit' = {}
         /\ lookups' = {}
    ELSE /\ lookups' = {Lookup(id, form)}
         /\ UNCHANGED bookedTimesForEdit

\* openEdit(appt) of a row of the list
OpenEdit(appt) ==
    /\ path = "/AllAppointments"
    /\ appt \in appointments
    /\ editing # appt.id
    /\ editing' = appt.id
    /\ editForm' = [date |-> appt.date, duration |-> appt.duration]
    /\ ConflictEffect(editing', editForm')
    /\ UNCHANGED <<serverVars, guardVars, wizardVars>>

\* the date input of the modal
EditDate(date) ==
    /\ path = "/AllAppointments" /\ editing # NoEditing
    /\ date # editForm.date
    /\ editForm' = [editForm EXCEPT !.date = date]
    /\ ConflictEffect(editing, editForm')
    /\ UNCHANGED <<serverVars, guardVars, wizardVars, editing>>

\* the duration select of the modal
EditDuration(duration) ==
    /\ path = "/AllAppointments" /\ editing # NoEditing
    /\ duration # editForm.duration
    /\ editForm' = [editForm EXCEPT !.duration = duration]
    /\ ConflictEffect(editing, editForm')
    /\ UNCHANGED <<serverVars, guardVars, wizardVars, editing>>

\* the Cancel button of the modal: setEditing(null)
CloseEdit ==
    /\ path = "/AllAppointments" /\ editing # NoEditing
    /\ editing' = NoEditing
    /\ ConflictEffect(NoEditing, editForm)
    /\ UNCHANGED <<serverVars, guardVars, wizardVars, editForm>>

\* the lookup is answered and the effect's async function resumes: an answer
\* that is not ok is thrown and caught, and the answer of the GET handler
\* carries no conflicts to read; either way the disabled times stay as
\* they are
LookupAnswered(l) ==
    /\ l \in lookups
    /\ lookups' = lookups \ {l}
    /\ admin' = AdminReply("POST availability",
                           AvailabilityRouteStatus("POST", l.date), <<>>, 0)
    /\ UNCHANGED bookedTimesForEdit
    /\ UNCHANGED <<reviewVars, info, appointments, nextApptId, business_hours,
                   holiday_hours, nextHolidayId, session, now, pc, req, resp, avail,
                   auth, guardVars, wizardVars, editing, editForm>>

-----------------------------------------------------------------------------
(* The state after start-up: empty tables, no session user, nothing in flight *)

Init ==
    /\ appointments = {}
    /\ nextApptId = 1
    /\ business_hours = {}
    /\ holiday_hours = {}
    /\ nextHolidayId = 1
    /\ session = NoUser
    /\ now = 0
    /\ pc = [r \in Req |-> "idle"]
    /\ req = [r \in Req |-> NoReq]
    /\ resp = [r \in Req |-> NoReply]
    /\ avail = NoAvail
    /\ auth = NoAuth
    /\ admin = NoAdmin
    /\ reviews = {}
    /\ nextReviewId = 1
    /\ review = NoReview
    /\ info = NoInfo
    /\ ClientInit

-----------------------------------------------------------------------------
(* Inputs *)

T0900 == HHMM(9, 0)
T0930 == HHMM(9, 30)

\* the instants the clock is observed at: day 0 00:00 and day 1 00:00
ClockValues == {0, 24 * 60}

AdminLogin == <<"admin@x", "pw-admin">>

\* a ten-digit phone number
Phone1 == PhoneText(<<4, 1, 6, 5, 5, 5, 0, 1, 0, 0>>)

\* bodies of POST /api/BookAppointment: the well-formed ones, one with a
\* required field missing and one with a duration outside {30, 60}
BookBodies ==
    [complete : {TRUE}, date : Days, time : {T0900, T0930}, duration : {30, 60},
     phoneNumber : {Phone1}]
    \cup { [complete |-> FALSE, date |-> 0, time |-> T0900, duration |-> 30,
            phoneNumber |-> Phone1],
           [complete |-> TRUE, date |-> 0, time |-> T0900, duration |-> 45,
            phoneNumber |-> Phone1] }

\* bodies of PUT /api/appointments/:id
UpdateBodies ==
    [complete : {TRUE}, date : Days, time : {T0900, T0930}, duration : {30, 60},
     phoneNumber : {NoPhoneField},
     active : {"absent"}, paid : {"absent"}]
    \cup { [complete |-> FALSE, date |-> 0, time |-> T0900, duration |-> 30,
            phoneNumber |-> NoPhoneField,
            active |-> "absent", paid |-> "absent"] }

ApptIds == 0..MaxAppts

\* every other request slot is idle: requests are handled one at a time
OneAtATime(r) == \A q \in Req \ {r} : pc[q] = "idle"

-----------------------------------------------------------------------------
(* Spec: booking and updating, one request at a time *)

Next ==
    \/ Login(AdminLogin[1], AdminLogin[2])
    \/ \E t \in ClockValues : Tick(t)
    \/ \E body \in BookBodies : OneAtATime("r1") /\ BookCheck("r1", body)
    \/ OneAtATime("r1") /\ BookInsert("r1")
    \/ \E id \in ApptIds, body \in UpdateBodies :
           OneAtATime("r1") /\ UpdateCheck("r1", id, body)
    \/ OneAtATime("r1") /\ UpdateWrite("r1")
    \/ OneAtATime("r1") /\ UpdateSelect("r1")

Spec == Init /\ [][Next]_vars

(* SpecRace: two requests for one date, their statements interleaved *)

RaceBookBodies == {b \in BookBodies : b.complete /\ b.date = 0 /\ b.duration # 45}
RaceUpdateBodies == {b \in UpdateBodies : b.complete /\ b.date = 0}

NextRace ==
    \/ Login(AdminLogin[1], AdminLogin[2])
    \/ \E r \in Req, body \in RaceBookBodies : BookCheck(r, body)
    \/ \E r \in Req : BookInsert(r)
    \/ \E r \in Req, id \in ApptIds \ {0}, body \in RaceUpdateBodies :
           UpdateCheck(r, id, body)
    \/ \E r \in Req : UpdateWrite(r)
    \/ \E r \in Req : UpdateSelect(r)

SpecRace == Init /\ [][NextRace]_vars

-----------------------------------------------------------------------------
(* Claims *)

\* the half-open intervals [time, time + duration) of two rows overlap
Overlap(a, b) == a.time < b.time + b.duration /\ b.time < a.time + a.duration

\* C1: with requests handled one at a time, no two stored appointments of the
\* same date have overlapping intervals [time, time + duration).
C1_NoOverlap ==
    \A a \in appointments, b \in appointments :
        (a.id # b.id /\ a.date = b.date) => ~Overlap(a, b)

\* C1 witness: two appointments that touch on one date, the last request a
\* successful update.
C1_Witness ==
    /\ \E a \in appointments, b \in appointments :
           a.id # b.id /\ a.date = b.date /\ a.time + a.duration = b.time
    /\ \E r \in Req : resp[r].route = "update" /\ resp[r].status = 200
                      /\ resp[r].body # {}

\* C2: a request whose conflict check has passed is written and answered 200
\* whatever the other request has written meanwhile; so two requests for
\* overlapping intervals whose checks both ran first both succeed and leave two
\* overlapping appointments (the witnesses).
C2_CheckedRequestsSucceed ==
    [][\A r \in Req :
          /\ (pc[r] = "book_insert" /\ pc'[r] = "idle") =>
                 /\ resp'[r] = Reply("book", 200, {})
                 /\ \E a \in appointments' \ appointments :
                        /\ a.date = req[r].date /\ a.time = req[r].time
                        /\ a.duration = req[r].duration
          /\ (pc[r] = "update_write" /\ pc'[r] = "update_select") =>
                 \A a \in appointments : a.id = req[r].id =>
                     \E b \in appointments' :
                         /\ b.id = a.id /\ b.date = req[r].date
                         /\ b.time = req[r].time /\ b.duration = req[r].duration
          /\ (pc[r] = "update_select" /\ pc'[r] = "idle") =>
                 resp'[r].route = "update" /\ resp'[r].status = 200
      ]_vars

\* C2 witness (create/create): both creates answered 200, the two rows overlap.
C2_Witness ==
    /\ resp["r1"] = Reply("book", 200, {})
    /\ resp["r2"] = Reply("book", 200, {})
    /\ \E a \in appointments, b \in appointments :
           a.id # b.id /\ a.date = b.date /\ Overlap(a, b)

\* C2, create/update: a create and an update both answered 200, the updated row
\* overlapping the created one.
C2_WitnessUpdate ==
    /\ resp["r1"] = Reply("book", 200, {})
    /\ resp["r2"].route = "update" /\ resp["r2"].status = 200
    /\ \E a \in resp["r2"].body, b \in appointments :
           a \in appointments /\ a.id # b.id /\ a.date = b.date /\ Overlap(a, b)

\* the interval of a request body overlaps the row a
BodyOverlaps(body, a) ==
    /\ a.date = body.date
    /\ LET start == SqlTime(Slice5(body.time))
       IN  start < a.time + a.duration /\ a.time < start + body.duration

\* C3: an otherwise valid create whose interval overlaps a stored appointment of
\* its date is answered 409; an otherwise valid update by an admin is answered
\* 409 exactly when its interval overlaps a stored appointment other than row
\* id (so not because of the row's own slot); a 409 changes no table and leaves
\* nothing in flight.
C3_ConflictRejected ==
    /\ [](/\ \A body \in BookBodies :
                (BookValidate(body) = 0 /\ \E a \in appointments : BodyOverlaps(body, a))
                => BookStatus(body) = 409
          /\ \A id \in ApptIds, body \in UpdateBodies :
                (AdminGuard(session) = 0 /\ UpdateValidate(id, body) = 0)
                => ( (\E a \in appointments : a.id # id /\ BodyOverlaps(body, a))
                     <=> UpdateStatus(session, id, body) = 409 ))
    /\ [][\A r \in Req :
             (resp'[r] # resp[r] /\ resp'[r].status = 409)
             => appointments' = appointments /\ pc' = pc]_vars

\* C3 witness: a create answered 409 while two appointments are stored, one of
\* which an update has moved.
C3_Witness ==
    /\ resp["r1"] = Reply("book", 409, {})
    /\ \E a \in appointments, b \in appointments : a.id < b.id /\ a.date = b.date
                                                    /\ b.time < a.time

-----------------------------------------------------------------------------
(* SpecSlots: an admin sets Monday's business hours, anyone asks for the
   availability of day 1 (a Monday) with several slotMinutes *)

T1000 == HHMM(10, 0)
T1700 == HHMM(17, 0)

\* bodies of PUT /api/admin/business-hours/1: open windows, and one whose
\* start is not before its end
SlotWindows ==
    [is_open : {TRUE}, start_time : {T0900, T0930}, end_time : {T1000, T1700}]
    \cup { [is_open |-> TRUE, start_time |-> T1000, end_time |-> T0900] }

\* parseInt(req.query.slotMinutes, 10)
SlotParams == {NaN, <<7>>, <<30>>, <<60>>, <<480>>, <<5460>>}

NextSlots ==
    \/ Login(AdminLogin[1], AdminLogin[2])
    \/ \E t \in ClockValues : Tick(t)
    \/ \E body \in SlotWindows : BizPut(1, body)
    \/ \E parsed \in SlotParams : Availability(1, parsed)

SpecSlots == Init /\ [][NextSlots]_vars

\* the slot starts minute arithmetic gives for the window [start, end] in
\* minutes: start + k * slot for every k >= 0 with start + (k + 1) * slot <= end
ExpectedSlots(start, end, slot) ==
    IF end < start + slot THEN <<>>
    ELSE [k \in 1..((end - start) \div slot) |->
              LET t == start + (k - 1) * slot IN HHMM(t \div 60, t % 60)]

\* the business-hours rows of Monday that carry both times
MondayWindow ==
    {b \in business_hours :
        b.week_day = 1 /\ b.start_time # NoTime /\ b.end_time # NoTime}

\* C4: on a date that is not today and has no appointments, for every working
\* window and every effective slotMinutes >= 5 the times of the answer are exactly
\* start + k * slotMinutes, in ascending order, for the k >= 0 whose slot ends
\* at or before the window's end; 09:00-17:00 at 30 minutes gives the 16 starts
\* 09:00 through 16:30.
C4_ExactSlots ==
    \A parsed \in SlotParams, b \in MondayWindow :
        (/\ SlotMinutes(parsed) >= 5
         /\ Today # 1
         /\ {a \in appointments : a.date = 1} = {}
         /\ HolidayMatches(1) = {})
        => LET times == AvailabilityAnswer(1, parsed).times
           IN  /\ times = ExpectedSlots(b.start_time, b.end_time, SlotMinutes(parsed))
               /\ (b.start_time = 9 * 60 /\ b.end_time = 17 * 60
                   /\ SlotMinutes(parsed) = 30)
                  => (Len(times) = 16 /\ times[1] = T0900 /\ times[16] = HHMM(16, 30))

\* the same statement for the requests whose first slot ends before 100:00,
\* where every time text has two hour digits
C4_ExactSlotsTwoHourDigits ==
    \A parsed \in SlotParams, b \in MondayWindow :
        (/\ SlotMinutes(parsed) >= 5
         /\ b.start_time + SlotMinutes(parsed) < 100 * 60
         /\ Today # 1
         /\ {a \in appointments : a.date = 1} = {}
         /\ HolidayMatches(1) = {})
        => LET times == AvailabilityAnswer(1, parsed).times
           IN  /\ times = ExpectedSlots(b.start_time, b.end_time, SlotMinutes(parsed))
               /\ (b.start_time = 9 * 60 /\ b.end_time = 17 * 60
                   /\ SlotMinutes(parsed) = 30)
                  => (Len(times) = 16 /\ times[1] = T0900 /\ times[16] = HHMM(16, 30))

\* the 16 slots of 09:00-17:00 at 30 minutes have been answered
C4_SixteenSlots ==
    /\ avail.status = 200 /\ avail.slotMinutes = 30
    /\ Len(avail.times) = 16
    /\ avail.times[1] = T0900 /\ avail.times[16] = HHMM(16, 30)

-----------------------------------------------------------------------------
(* SpecAvail: Monday's business hours are 09:00-12:00, appointments are booked
   on day 1 and updated, and the availability of day 1 is asked for as the
   clock moves *)

T1100 == HHMM(11, 0)
T1200 == HHMM(12, 0)

AvailWindow == [is_open |-> TRUE, start_time |-> T0900, end_time |-> T1200]

AvailBookBodies ==
    [complete : {TRUE}, date : {1}, time : {T1000, T1100}, duration : {30, 60},
     phoneNumber : {Phone1}]

\* an update that keeps the slot of a 60-minute appointment at 10:00 and marks
\* it inactive and paid
AvailUpdateBody ==
    [complete |-> TRUE, date |-> 1, time |-> T1000, duration |-> 60,
     phoneNumber |-> NoPhoneField,
     active |-> "false", paid |-> "true"]

\* day 0 00:00 and day 1 10:15
AvailClockValues == {0, 24 * 60 + 10 * 60 + 15}

AvailParams == {NaN, <<60>>, <<5460>>}

NextAvail ==
    \/ Login(AdminLogin[1], AdminLogin[2])
    \/ \E t \in AvailClockValues : Tick(t)
    \/ BizPut(1, AvailWindow)
    \/ \E body \in AvailBookBodies : OneAtATime("r1") /\ BookCheck("r1", body)
    \/ OneAtATime("r1") /\ BookInsert("r1")
    \/ \E id \in ApptIds \ {0} : OneAtATime("r1") /\ UpdateCheck("r1", id, AvailUpdateBody)
    \/ OneAtATime("r1") /\ UpdateWrite("r1")
    \/ OneAtATime("r1") /\ UpdateSelect("r1")
    \/ \E parsed \in AvailParams : Availability(1, parsed)

SpecAvail == Init /\ [][NextAvail]_vars

\* whether the slot [t, t + slot) of the text t and the appointment a overlap,
\* in minutes of the day
SlotOverlaps(t, slot, a) ==
    SqlTime(t) < a.time + a.duration /\ SqlTime(t) + slot > a.time

\* the candidates that overlap no appointment stored on the date
KeptCandidates(date, slot, candidates) ==
    SelectSeq(candidates,
              LAMBDA t : ~\E a \in appointments : a.date = date /\ SlotOverlaps(t, slot, a))

\* C5: a candidate t is removed exactly when some appointment stored on the
\* date, whatever its active or paid value, has t < apptStart + duration and
\* t + slotMinutes > apptStart; a candidate that only touches an appointment's
\* boundary is kept. With one 60-minute appointment at 10:00 and 30-minute
\* slots, 10:00 and 10:30 are absent and 09:30 and 11:00 are present.
C5_RemovedIffOverlap ==
    \A parsed \in AvailParams, b \in MondayWindow :
        HolidayMatches(1) = {}
        => LET slot == SlotMinutes(parsed)
               candidates == Future(1, Candidates(FormatHHMM(b.start_time), slot,
                                                  FormatHHMM(b.end_time)))
               times == AvailabilityAnswer(1, parsed).times
               Has(t) == \E i \in 1..Len(times) : times[i] = t
           IN  /\ times = KeptCandidates(1, slot, candidates)
               /\ (slot = 30 /\ Today # 1
                   /\ {[time |-> a.time, duration |-> a.duration] :
                          a \in {x \in appointments : x.date = 1}}
                      = {[time |-> 10 * 60, duration |-> 60]})
                  => (/\ ~Has(T1000) /\ ~Has(HHMM(10, 30))
                      /\ Has(T0930) /\ Has(T1100))

\* the same statement for the requests whose slots end before 100:00
C5_RemovedIffOverlapTwoHourDigits ==
    \A parsed \in AvailParams, b \in MondayWindow :
        (HolidayMatches(1) = {} /\ b.end_time + SlotMinutes(parsed) < 100 * 60)
        => LET slot == SlotMinutes(parsed)
               candidates == Future(1, Candidates(FormatHHMM(b.start_time), slot,
                                                  FormatHHMM(b.end_time)))
               times == AvailabilityAnswer(1, parsed).times
               Has(t) == \E i \in 1..Len(times) : times[i] = t
           IN  /\ times = KeptCandidates(1, slot, candidates)
               /\ (slot = 30 /\ Today # 1
                   /\ {[time |-> a.time, duration |-> a.duration] :
                          a \in {x \in appointments : x.date = 1}}
                      = {[time |-> 10 * 60, duration |-> 60]})
                  => (/\ ~Has(T1000) /\ ~Has(HHMM(10, 30))
                      /\ Has(T0930) /\ Has(T1100))

\* the answer for one inactive 60-minute appointment at 10:00 and 30-minute
\* slots in the window 09:00-12:00
C5_ExampleAnswered ==
    /\ avail.status = 200 /\ avail.slotMinutes = 30
    /\ \E a \in appointments : a.date = 1 /\ a.time = 10 * 60 /\ a.duration = 60
                               /\ a.active = 0
    /\ avail.times = <<T0900, T0930, T1100, HHMM(11, 30)>>

-----------------------------------------------------------------------------
(* SpecHoliday: an admin stores holiday overrides around day 1 and Monday's
   business hours, an appointment is booked on day 1, and the availability of
   day 1 is asked for *)

Label(c) == <<c>>

\* the dates availability is asked for
HolidayDates == {1, 2}

\* bodies of POST /api/admin/holiday-hours: day 0 alone, day 1 alone, days 0-1
\* and days 0-2, each either closed with label A or open 10:00-11:00 with
\* label B
HolidayBodies ==
    { [start_date |-> d[1], end_date |-> d[2], holiday |-> k[1], comment |-> NullText,
       is_open |-> k[2], start_time |-> k[3], end_time |-> k[4]] :
      d \in {<<0, NoDate>>, <<1, NoDate>>, <<0, 1>>, <<0, 2>>},
      k \in {<<Label("A"), FALSE, NullText, NullText>>,
             <<Label("B"), TRUE, T1000, T1100>>} }

HolidayBookBody == [complete |-> TRUE, date |-> 1, time |-> T1000, duration |-> 30,
                    phoneNumber |-> Phone1]

NextHoliday ==
    \/ Login(AdminLogin[1], AdminLogin[2])
    \/ BizPut(1, AvailWindow)
    \/ \E body \in HolidayBodies : HolidayPost(body)
    \/ OneAtATime("r1") /\ BookCheck("r1", HolidayBookBody)
    \/ OneAtATime("r1") /\ BookInsert("r1")
    \/ \E date \in HolidayDates : Availability(date, NaN)

SpecHoliday == Init /\ [][NextHoliday]_vars

\* the overrides whose range contains the date, a missing end_date read as
\* start_date
Containing(date) ==
    {h \in holiday_hours :
        /\ h.start_date <= date
        /\ date <= (IF h.end_date = NoDate THEN h.start_date ELSE h.end_date)}

SingleDay(h) == h.end_date = NoDate \/ h.end_date = h.start_date
DaySpan(h) == IF h.end_date = NoDate THEN 0 ELSE h.end_date - h.start_date

\* x comes before y: single-day before multi-day, then the smaller span, then
\* the lower id
Before(x, y) ==
    \/ SingleDay(x) /\ ~SingleDay(y)
    \/ /\ SingleDay(x) = SingleDay(y)
       /\ \/ DaySpan(x) < DaySpan(y)
          \/ DaySpan(x) = DaySpan(y) /\ x.id < y.id

\* the override that comes before every other one containing the date
Applied(date) ==
    {h \in Containing(date) : \A g \in Containing(date) \ {h} : Before(h, g)}

\* C6: whenever the override selected for a date is closed, the answer is an
\* empty time list with that override's label and an open-override flag of
\* false, whatever the business-hours row of the weekday and whatever
\* appointments exist.
C6_ClosedOverrideEmpty ==
    \A date \in HolidayDates : \A h \in Applied(date) :
        h.is_open = 0
        => LET answer == AvailabilityAnswer(date, NaN)
           IN  /\ answer.status = 200
               /\ answer.times = <<>>
               /\ answer.holidayLabel = h.holiday
               /\ answer.isOpenOverride = FALSE

\* C6 witness: a closed multi-day override was answered with its label while
\* Monday has business hours and day 1 has an appointment
C6_Witness ==
    /\ avail.status = 200 /\ avail.date = 1 /\ avail.times = <<>>
    /\ avail.holidayLabel = Label("A") /\ ~avail.isOpenOverride
    /\ \E h \in Applied(1) : h.is_open = 0 /\ ~SingleDay(h)
    /\ MondayWindow # {}
    /\ \E a \in appointments : a.date = 1

\* C7: among the overrides whose range contains the date, the one availability
\* applies is the first by: single-day before multi-day, then smallest day
\* span, then lowest id; its open/closed state, label and hours are the ones
\* the answer shows.
C7_OverridePriority ==
    \A date \in HolidayDates :
    /\ Containing(date) # {} => Applied(date) # {}
    /\ \A h \in Applied(date) :
           LET answer == AvailabilityAnswer(date, NaN)
           IN  /\ HolidayRows(date) = {h}
               /\ answer.meta
               /\ answer.holidayLabel = h.holiday
               /\ answer.isOpenOverride = (h.is_open = 1)
               /\ answer.times =
                      IF h.is_open = 1
                      THEN WindowTimes(date, 30, h.start_time, h.end_time)
                      ELSE <<>>

\* C7 witness: an open single-day override stored after a closed multi-day one
\* was answered with its hours
C7_Witness ==
    /\ \E x \in holiday_hours, y \in holiday_hours :
           /\ x.id < y.id
           /\ ~SingleDay(x) /\ x.is_open = 0 /\ x \in Containing(1)
           /\ SingleDay(y) /\ y.is_open = 1 /\ y \in Containing(1)
    /\ avail.status = 200 /\ avail.date = 1 /\ avail.isOpenOverride
    /\ avail.holidayLabel = Label("B")
    /\ avail.times = <<T1000, HHMM(10, 30)>>

-----------------------------------------------------------------------------
(* SpecWindow: an admin stores business hours for Monday and Sunday and
   single-day overrides on day 0 (a Sunday) and day 1 (a Monday); the
   availability of both days is asked for *)

\* PUT /api/admin/business-hours/:week_day requests: Monday 09:00-10:00,
\* Sunday 10:00-11:00, and Monday closed without times
WindowPuts ==
    { <<1, [is_open |-> TRUE, start_time |-> T0900, end_time |-> T1000]>>,
      <<7, [is_open |-> TRUE, start_time |-> T1000, end_time |-> T1100]>>,
      <<1, [is_open |-> FALSE, start_time |-> NullText, end_time |-> NullText]>> }

\* bodies of POST /api/admin/holiday-hours: day 0 or day 1, closed with label
\* A or open 11:00-12:00 with label B
WindowHolidayBodies ==
    { [start_date |-> d, end_date |-> NoDate, holiday |-> k[1], comment |-> NullText,
       is_open |-> k[2], start_time |-> k[3], end_time |-> k[4]] :
      d \in Days,
      k \in {<<Label("A"), FALSE, NullText, NullText>>,
             <<Label("B"), TRUE, T1100, T1200>>} }

\* the dates the lookup is examined for: two Sundays, two Mondays, a Saturday
WindowDates == {0, 1, 6, 7, 8}

NextWindow ==
    \/ Login(AdminLogin[1], AdminLogin[2])
    \/ \E put \in WindowPuts : BizPut(put[1], put[2])
    \/ BizDelete(1)
    \/ \E body \in WindowHolidayBodies : HolidayPost(body)
    \/ \E date \in Days : Availability(date, NaN)

SpecWindow == Init /\ [][NextWindow]_vars

\* the weekday of a date numbered Monday = 1 ... Sunday = 7; day 0 is a Sunday
WeekdayMonday1(date) == ((date + 6) % 7) + 1

\* C8: the window availability uses is the selected override's start/end time,
\* with open-override flag true, when an open override contains the date;
\* with no override it is the business-hours row of the date's weekday
\* numbered Monday = 1 ... Sunday = 7, and the answer is an empty list without
\* annotation when that row is missing or lacks a start or end time.
C8_WorkingWindow ==
    \A date \in WindowDates :
        LET answer == AvailabilityAnswer(date, NaN)
            rows == {b \in business_hours : b.week_day = WeekdayMonday1(date)}
        IN  /\ \A h \in Applied(date) :
                   h.is_open = 1
                   => /\ answer.isOpenOverride
                      /\ answer.times = WindowTimes(date, 30, h.start_time, h.end_time)
            /\ Containing(date) = {}
               => /\ ~answer.meta /\ ~answer.isOpenOverride
                  /\ answer.holidayLabel = NullText
                  /\ rows = {} => answer.times = <<>>
                  /\ \A b \in rows :
                         answer.times =
                             IF b.start_time = NoTime \/ b.end_time = NoTime THEN <<>>
                             ELSE WindowTimes(date, 30, b.start_time, b.end_time)

\* C8 witness: day 0, a Sunday, was answered from the week_day 7 row while the
\* Monday row holds other hours and day 1 has an open override
C8_Witness ==
    /\ avail.status = 200 /\ avail.date = 0 /\ ~avail.meta
    /\ avail.times = <<T1000, HHMM(10, 30)>>
    /\ \E b \in business_hours : b.week_day = 1 /\ b.start_time = 9 * 60
    /\ \E h \in Applied(1) : h.is_open = 1

\* the open override of day 1 was answered with its own hours
C8_WitnessOverride ==
    /\ avail.status = 200 /\ avail.date = 1 /\ avail.isOpenOverride
    /\ avail.times = <<T1100, HHMM(11, 30)>>
    /\ MondayWindow # {}

-----------------------------------------------------------------------------
(* SpecAuth: one browser session logs in as the admin or as a viewer and out
   again and calls every admin-only endpoint, one request at a time, while an
   appointment is booked publicly *)

ViewerLogin == <<"viewer@x", "pw-viewer">>

AuthBookBody == [complete |-> TRUE, date |-> 1, time |-> T1000, duration |-> 30,
                 phoneNumber |-> Phone1]

AuthUpdateBody ==
    [complete |-> TRUE, date |-> 1, time |-> T1100, duration |-> 30,
     phoneNumber |-> NoPhoneField,
     active |-> "absent", paid |-> "true"]

AuthHolidayBody(c) ==
    [start_date |-> 1, end_date |-> NoDate, holiday |-> Label(c), comment |-> NullText,
     is_open |-> FALSE, start_time |-> NullText, end_time |-> NullText]

\* no request is in flight
Idle == \A r \in Req : pc[r] = "idle"

NextAuth ==
    \/ \E c \in {AdminLogin, ViewerLogin} : Idle /\ Login(c[1], c[2])
    \/ Idle /\ Logout
    \/ Idle /\ BookCheck("r1", AuthBookBody)
    \/ BookInsert("r1")
    \/ Idle /\ ListAppointments({<<"date", 1>>}, 0)
    \/ Idle /\ UpdateCheck("r1", 1, AuthUpdateBody)
    \/ UpdateWrite("r1")
    \/ UpdateSelect("r1")
    \/ Idle /\ BizGet
    \/ Idle /\ BizPut(1, AvailWindow)
    \/ Idle /\ BizDelete(1)
    \/ Idle /\ HolidayGet(0, 1)
    \/ Idle /\ HolidayPost(AuthHolidayBody("A"))
    \/ Idle /\ HolidayPut(1, AuthHolidayBody("B"))
    \/ Idle /\ HolidayDelete(1)

SpecAuth == Init /\ [][NextAuth]_vars

\* C9: on every admin-only endpoint a request of a session without a user is
\* answered 401 and a request of a session whose user is not an admin is
\* answered 403; the answer carries no stored row and no appointment,
\* business-hours or holiday row changes (appointments change only by the
\* INSERT of a public booking).
C9_AdminOnly ==
    [][(session = NoUser \/ session.role # "admin")
       => LET code == IF session = NoUser THEN 401 ELSE 403
          IN  /\ admin' # admin => admin' = AdminReply(admin'.route, code, <<>>, 0)
              /\ \A r \in Req :
                     (resp'[r] # resp[r] /\ resp'[r].route = "update")
                     => resp'[r] = Reply("update", code, {})
              /\ \A r \in Req : pc'[r] \in {"idle", "book_insert"}
              /\ business_hours' = business_hours
              /\ holiday_hours' = holiday_hours
              /\ nextHolidayId' = nextHolidayId
              /\ appointments' # appointments
                 => \E r \in Req : pc[r] = "book_insert" /\ pc'[r] = "idle"]_vars

\* C9 witness: a viewer's DELETE of a stored override was answered 403 while
\* an appointment and a business-hours row are stored too
C9_Witness ==
    /\ session.role = "viewer"
    /\ admin = AdminReply("DELETE holiday-hours", 403, <<>>, 0)
    /\ \E h \in holiday_hours : h.id = 1
    /\ appointments # {} /\ business_hours # {}

\* a request without a session user was answered 401 on the update route
C9_WitnessUnauthenticated ==
    /\ session = NoUser
    /\ resp["r1"] = Reply("update", 401, {})
    /\ \E a \in appointments : a.id = 1

(* SpecSession: one browser session logs in with several credentials, asks
   who it is and logs out, and reads and writes the business hours *)

\* bodies of POST /auth/login: the two accounts, a wrong password, an unknown
\* email, a missing email and a missing password
Credentials ==
    { AdminLogin, ViewerLogin, <<"admin@x", "pw-viewer">>,
      <<"nobody@x", "pw-admin">>, <<"", "pw-admin">>, <<"admin@x", "">> }

NextSession ==
    \/ \E c \in Credentials : Login(c[1], c[2])
    \/ Me
    \/ Logout
    \/ BizPut(1, AvailWindow)
    \/ BizGet

SpecSession == Init /\ [][NextSession]_vars

\* C10: on one session, a successful login attaches the {id, email, role} it
\* returns, GET /auth/me returns the session's user (null after a logout), a
\* failed login (400 or 401) leaves the session as it was, POST /auth/logout
\* answers {ok: true} and detaches the user whether or not one was logged in,
\* and nothing else changes the session's user.
C10_Session ==
    /\ [](/\ (auth.route = "login" /\ auth.status = 200)
             => (session = auth.user /\ session # NoUser)
          /\ auth.route = "me" => auth.user = session
          /\ auth.route = "logout" => (auth.ok /\ session = NoUser))
    /\ [][/\ (auth' # auth /\ auth'.route = "login" /\ auth'.status # 200)
             => (auth'.status \in {400, 401} /\ session' = session)
          /\ (auth' # auth /\ auth'.route = "logout")
             => (auth'.ok /\ auth'.status = 200 /\ session' = NoUser)
          /\ session' # session
             => /\ auth' # auth
                /\ \/ auth'.route = "login" /\ auth'.status = 200
                   \/ auth'.route = "logout"]_vars

\* C10 witness: GET /auth/me returned the viewer that logged in
C10_Witness ==
    /\ auth.route = "me"
    /\ auth.user = [id |-> 2, email |-> "viewer@x", role |-> "viewer"]
    /\ session = auth.user

\* GET /auth/me returned null although the admin's rows are stored
C10_WitnessLoggedOut ==
    /\ auth.route = "me" /\ auth.user = NoUser
    /\ business_hours # {}

-----------------------------------------------------------------------------
(* The appointments table under bookings and updates *)

ApptIdsStored == {a.id : a \in appointments}

\* C11: the set of stored appointments changes only by the INSERT of a
\* successful POST /api/BookAppointment, which adds exactly one row with
\* active = 1 and paid = 0, and by the UPDATE of PUT /api/appointments/:id,
\* which changes at most the row with that id and adds none (also when no row
\* has that id); no step removes an appointment.
C11_AppointmentsChange ==
    [][/\ ApptIdsStored \subseteq {a.id : a \in appointments'}
       /\ \A r \in Req :
              (resp'[r] # resp[r] /\ resp'[r] = Reply("book", 200, {}))
              => \E row \in appointments' \ appointments :
                     /\ appointments' = appointments \cup {row}
                     /\ row.id \notin ApptIdsStored
                     /\ row.active = 1 /\ row.paid = 0
       /\ appointments' # appointments
          => \/ \E r \in Req :
                    /\ pc[r] = "book_insert" /\ resp'[r] = Reply("book", 200, {})
                    /\ Cardinality(appointments') = Cardinality(appointments) + 1
                    /\ appointments \subseteq appointments'
             \/ \E r \in Req :
                    /\ pc[r] = "update_write"
                    /\ {a.id : a \in appointments'} = ApptIdsStored
                    /\ \A a \in appointments : a.id # req[r].id => a \in appointments']_vars

\* C11 witness: an update of an id no row has was answered 200 without a row
\* while the stored appointment stayed as booked
C11_Witness ==
    /\ resp["r1"] = Reply("update", 200, {})
    /\ \E a \in appointments : a.active = 1 /\ a.paid = 0
    /\ Cardinality(appointments) = 1

-----------------------------------------------------------------------------
(* SpecUpdate: two appointments are booked on day 1 and an admin updates
   appointment 1 with bodies that carry or omit phoneNumber, active and paid *)

\* eleven digits that start with 1, written with a dash
Phone2 == PhoneText(<<1, Dash, 6, 4, 7, 5, 5, 5, 0, 1, 0, 1>>)

UpdateBookBodies ==
    [complete : {TRUE}, date : {1}, time : {T1000, T1100}, duration : {30},
     phoneNumber : {Phone1}]

\* absent, null, empty, a valid number and one with too few digits
UpdatePhones == {NoPhoneField, NullPhone, PhoneText(<<>>), Phone2, PhoneText(<<5, 5, 5>>)}

FieldUpdateBodies ==
    [complete : {TRUE}, date : {1}, time : {T1000}, duration : {30},
     phoneNumber : UpdatePhones, active : {"absent", "false"}, paid : {"absent", "true"}]

NextUpdate ==
    \/ Login(AdminLogin[1], AdminLogin[2])
    \/ \E body \in UpdateBookBodies : OneAtATime("r1") /\ BookCheck("r1", body)
    \/ OneAtATime("r1") /\ BookInsert("r1")
    \/ \E body \in FieldUpdateBodies : OneAtATime("r1") /\ UpdateCheck("r1", 1, body)
    \/ OneAtATime("r1") /\ UpdateWrite("r1")
    \/ OneAtATime("r1") /\ UpdateSelect("r1")

SpecUpdate == Init /\ [][NextUpdate]_vars

\* C12: the UPDATE of a successful PUT /api/appointments/:id leaves the row's
\* phoneNumber as it was when the request carries no phone number (absent,
\* null or empty), leaves active as it was when the body has no active field
\* and paid as it was when the body has no paid field; every other row is
\* unchanged.
C12_OmittedFieldsKept ==
    [][\A r \in Req :
          (pc[r] = "update_write" /\ pc'[r] = "update_select")
          => /\ Cardinality(appointments') = Cardinality(appointments)
             /\ \A a \in appointments :
                    IF a.id # req[r].id THEN a \in appointments'
                    ELSE \E b \in appointments' :
                             /\ b.id = a.id
                             /\ ~PhoneGiven(req[r].phoneNumber)
                                => b.phoneNumber = a.phoneNumber
                             /\ req[r].active = "absent" => b.active = a.active
                             /\ req[r].paid = "absent" => b.paid = a.paid]_vars

\* C12 witness: an update with a null phone number and no paid field was
\* answered with the row as booked except for active, beside a second row
C12_Witness ==
    /\ \E a \in appointments :
           /\ resp["r1"] = Reply("update", 200, {a})
           /\ a.phoneNumber = Phone1.text /\ a.active = 0 /\ a.paid = 0
    /\ Cardinality(appointments) = 2

\* an update that carried a phone number stored its ten digits
C12_WitnessPhoneSet ==
    \E a \in appointments :
        /\ resp["r1"] = Reply("update", 200, {a})
        /\ a.phoneNumber = <<6, 4, 7, 5, 5, 5, 0, 1, 0, 1>>

-----------------------------------------------------------------------------
(* SpecTimes: bookings and updates whose date or time is malformed or names no
   real time of day *)

T2500 == HHMM(25, 0)

\* times of day: well formed, hour above 23, and without the leading zero
BookTimes == {T1000, T2500, <<9, Colon, 0, 0>>}

TimeBookBodies ==
    [complete : {TRUE}, date : {1, NoDate}, time : BookTimes, duration : {30, 60},
     phoneNumber : {Phone1}]

TimeUpdateBodies ==
    [complete : {TRUE}, date : {1}, time : {T1000, T2500}, duration : {30},
     phoneNumber : {NoPhoneField}, active : {"absent"}, paid : {"absent"}]

NextTimes ==
    \/ Login(AdminLogin[1], AdminLogin[2])
    \/ \E t \in ClockValues : Tick(t)
    \/ \E body \in TimeBookBodies : OneAtATime("r1") /\ BookCheck("r1", body)
    \/ OneAtATime("r1") /\ BookInsert("r1")
    \/ \E id \in ApptIds \ {0}, body \in TimeUpdateBodies :
           OneAtATime("r1") /\ UpdateCheck("r1", id, body)
    \/ OneAtATime("r1") /\ UpdateWrite("r1")
    \/ OneAtATime("r1") /\ UpdateSelect("r1")

SpecTimes == Init /\ [][NextTimes]_vars

\* whether a date and the first five characters of a time form a date-time:
\* the date is well formed, the time has the NN:NN shape, its hour is at most
\* 23 and its minute at most 59
RealDateTime(date, time) ==
    /\ date # NoDate
    /\ IsHHMM(Slice5(time))
    /\ NumberOf(SubSeq(time, 1, 2)) <= 23
    /\ NumberOf(SubSeq(time, 4, 5)) <= 59

C13_Stored2500 ==
    /\ resp["r1"] = Reply("book", 200, {})
    /\ \E a \in appointments : a.time = 25 * 60

\* PUT /api/appointments/:id answers 400 for a time that names no time of day
C13_UpdateRejects ==
    \A id \in ApptIds \ {0}, body \in TimeUpdateBodies :
        (AdminGuard(session) = 0 /\ ~RealDateTime(body.date, body.time))
        => UpdateStatus(session, id, body) = 400

-----------------------------------------------------------------------------
(* SpecBiz: an admin writes and closes business hours of several weekdays,
   with bodies that are valid, lack a time or have start at or after end *)

\* values of :week_day; 0 and 8 are no weekdays
BizDays == {0, 1, 7, 8}

BizBodies ==
    [is_open : BOOLEAN,
     start_time : {NullText, T0900, T1000, <<9, Colon, 0, 0>>},
     end_time : {NullText, T0900, T1000}]

NextBiz ==
    \/ Login(AdminLogin[1], AdminLogin[2])
    \/ \E day \in BizDays, body \in BizBodies : BizPut(day, body)
    \/ \E day \in BizDays : BizDelete(day)

SpecBiz == Init /\ [][NextBiz]_vars

\* the body lacks a time, or both are "HH:MM" and start is at or after end
LacksTimeOrOrder(body) ==
    \/ body.start_time = NullText \/ body.end_time = NullText
    \/ /\ IsHHMM(body.start_time) /\ IsHHMM(body.end_time)
       /\ SqlTime(body.start_time) >= SqlTime(body.end_time)

\* C14: every stored business-hours row with is_open = 1 has a start and an
\* end time with start < end; a PUT with is_open true and start >= end or a
\* missing time is answered 400, and a 400 leaves the table unchanged.
C14_OpenRowsOrdered ==
    /\ [](/\ \A b \in business_hours :
                b.is_open = 1
                => (b.start_time # NoTime /\ b.end_time # NoTime
                    /\ b.start_time < b.end_time)
          /\ \A day \in BizDays, body \in BizBodies :
                (AdminGuard(session) = 0 /\ body.is_open /\ LacksTimeOrOrder(body))
                => BizPutStatus(session, day, body) = 400)
    /\ [][(admin' # admin /\ admin'.status = 400)
          => business_hours' = business_hours]_vars

\* C14 witness: a PUT was answered 400 while an open row and a closed row with
\* start after end are stored
C14_Witness ==
    /\ admin = AdminReply("PUT business-hours", 400, <<>>, 0)
    /\ \E b \in business_hours : b.is_open = 1
    /\ \E b \in business_hours : b.is_open = 0 /\ b.start_time > b.end_time
                                 /\ b.end_time # NoTime

BizWeekdays == {b.week_day : b \in business_hours}

\* C15: the set of weekdays that have a row never shrinks, there is at most
\* one row per weekday and only for weekdays 1..7; the DELETE of a weekday
\* sets is_open to 0 for it, leaves the times of an existing row as they are,
\* creates a closed row without times when none existed, and changes no other
\* weekday.
C15_RowsNeverRemoved ==
    /\ [](/\ BizWeekdays \subseteq 1..7
          /\ \A x \in business_hours, y \in business_hours :
                x.week_day = y.week_day => x = y
          /\ \A day \in BizDays :
                BizDeleteStatus(session, day) = 200
                => LET after == CloseWeekday(day)
                   IN  /\ \A b \in business_hours :
                              IF b.week_day # day THEN b \in after
                              ELSE [b EXCEPT !.is_open = 0] \in after
                       /\ day \notin BizWeekdays
                          => [week_day |-> day, start_time |-> NoTime,
                              end_time |-> NoTime, is_open |-> 0] \in after
                       /\ Cardinality(after) = Cardinality(BizWeekdays \cup {day}))
    /\ [][/\ BizWeekdays \subseteq {b.week_day : b \in business_hours'}
          /\ (admin' # admin /\ admin' = AdminReply("DELETE business-hours", 200, <<>>, 0))
             => \E day \in 1..7 : business_hours' = CloseWeekday(day)]_vars

\* C15 witness: a DELETE was answered 200 and the rows of both weekdays are
\* closed, one keeping its times and one without times
C15_Witness ==
    /\ admin = AdminReply("DELETE business-hours", 200, <<>>, 0)
    /\ \E b \in business_hours :
           b.is_open = 0 /\ b.start_time = 9 * 60 /\ b.end_time = 10 * 60
    /\ \E b \in business_hours : b.is_open = 0 /\ b.start_time = NoTime

-----------------------------------------------------------------------------
(* SpecOverrides: an admin creates, replaces, deletes and lists holiday
   overrides with bodies that are valid or break one validation rule *)

Seconds(t) == t \o <<Colon, 0, 0>>

\* bodies labelled c: a single day without a comment or two days with one, the
\* label as it is or padded with blanks, closed without or with times or open
\* with "HH:MM" or "HH:MM:SS" times; and one body for each validation rule
\* that it breaks
OverrideBodies(c) ==
    { [start_date |-> d[1], end_date |-> d[2], holiday |-> l, comment |-> d[3],
       is_open |-> k[1], start_time |-> k[2], end_time |-> k[3]] :
      d \in {<<0, NoDate, NullText>>, <<0, 1, <<" ", "c", " ">>>>},
      l \in {<<c>>, <<" ", c, " ">>},
      k \in {<<FALSE, NullText, NullText>>, <<FALSE, T0900, T1000>>,
             <<TRUE, T0900, T1000>>, <<TRUE, Seconds(T0900), Seconds(T1000)>>} }
    \cup
    { [start_date |-> d[1], end_date |-> d[2], holiday |-> l, comment |-> NullText,
       is_open |-> k[1], start_time |-> k[2], end_time |-> k[3]] :
      d \in {<<0, NoDate>>}, l \in {<<" ">>}, k \in {<<FALSE, NullText, NullText>>} }
    \cup
    { [start_date |-> d[1], end_date |-> d[2], holiday |-> <<c>>, comment |-> NullText,
       is_open |-> k[1], start_time |-> k[2], end_time |-> k[3]] :
      d \in {<<NoDate, NoDate>>, <<1, 0>>}, k \in {<<FALSE, NullText, NullText>>} }
    \cup
    { [start_date |-> 0, end_date |-> NoDate, holiday |-> <<c>>, comment |-> NullText,
       is_open |-> TRUE, start_time |-> k[1], end_time |-> k[2]] :
      k \in {<<T0900, NullText>>, <<T1000, T0900>>, <<T0900, T0900>>} }

PostBodies == OverrideBodies("A")
PutBodies == OverrideBodies("B")

HolidayIds == 0..MaxHolidays

\* the ranges the list is asked for
GetRanges == {<<0, 1>>, <<1, 1>>}

NextOverrides ==
    \/ Login(AdminLogin[1], AdminLogin[2])
    \/ \E body \in PostBodies : HolidayPost(body)
    \/ \E id \in HolidayIds, body \in PutBodies : HolidayPut(id, body)
    \/ \E id \in HolidayIds : HolidayDelete(id)
    \/ \E range \in GetRanges : HolidayGet(range[1], range[2])

SpecOverrides == Init /\ [][NextOverrides]_vars

\* the time of day a request's time text names, in minutes
SentMinutes(t) == TimeColumn(normalizeTimeHHMMSS(t))

BlankLabel(body) == Trim(body.holiday) = NullText
EndBeforeStart(body) == body.end_date # NoDate /\ body.end_date < body.start_date
OpenWithoutWindow(body) ==
    /\ body.is_open
    /\ \/ body.start_time = NullText
       \/ body.end_time = NullText
       \/ SentMinutes(body.start_time) >= SentMinutes(body.end_time)
ClosedWithTimes(body) ==
    ~body.is_open /\ (body.start_time # NullText \/ body.end_time # NullText)

HolidayRowsValid ==
    \A h \in holiday_hours :
        /\ h.holiday # NullText /\ Trim(h.holiday) = h.holiday
        /\ h.end_date = NoDate \/ h.end_date >= h.start_date
        /\ h.is_open \in {0, 1}
        /\ h.is_open = 1 =>
               h.start_time # NoTime /\ h.end_time # NoTime /\ h.start_time < h.end_time
        /\ h.is_open = 0 => h.start_time = NoTime /\ h.end_time = NoTime

\* the admin's POST and PUT (on any id) of `body` are both answered 400
Answered400(body) ==
    /\ HolidayPostStatus(session, body) = 400
    /\ \A id \in 1..MaxHolidays :
           HolidayPutStatus(session, holiday_hours, id, body) = 400

HolidayRoutes == {"POST holiday-hours", "PUT holiday-hours", "DELETE holiday-hours"}

\* C16 (as amended): every stored override has a non-empty trimmed label, an
\* end_date that is absent or on/after its start_date, both times with
\* start < end when open and no times when closed; an admin's POST or PUT with
\* a blank label, an end_date before the start_date or an open body lacking
\* ordered times is answered 400; a closed body that carries times is not
\* rejected but stored without them; and a request answered 400 changes
\* nothing.
C16_OverridesValid ==
    /\ [](/\ HolidayRowsValid
          /\ AdminGuard(session) = 0 =>
                 \A body \in PostBodies \cup PutBodies :
                     /\ BlankLabel(body) \/ EndBeforeStart(body)
                            \/ OpenWithoutWindow(body) => Answered400(body)
                     /\ (ClosedWithTimes(body) /\ ~BlankLabel(body)
                             /\ ~EndBeforeStart(body) /\ isISODate(body.start_date)) =>
                            /\ HolidayPostStatus(session, body) = 200
                            /\ HolidayRow(1, body).start_time = NoTime
                            /\ HolidayRow(1, body).end_time = NoTime)
    /\ [][(admin'.route \in HolidayRoutes /\ admin'.status = 400) =>
              (holiday_hours' = holiday_hours /\ nextHolidayId' = nextHolidayId)]_vars

\* a 400 has just answered a PUT while an open and a closed override are stored
C16_Witness ==
    /\ admin.route = "PUT holiday-hours" /\ admin.status = 400
    /\ \E h \in holiday_hours : h.is_open = 1
    /\ \E h \in holiday_hours : h.is_open = 0

\* C16 as stated: every request violating one of the four row rules, a closed
\* body carrying times included, is answered 400
C16_EveryViolationRejected ==
    /\ HolidayRowsValid
    /\ AdminGuard(session) = 0 =>
           \A body \in PostBodies \cup PutBodies :
               BlankLabel(body) \/ EndBeforeStart(body) \/ OpenWithoutWindow(body)
                   \/ ClosedWithTimes(body) => Answered400(body)

\* the range [from, to] overlaps the days the body covers
RangeOverlaps(body, from, to) ==
    LET last == IF body.end_date = NoDate THEN body.start_date ELSE body.end_date
    IN  ~(last < from \/ body.start_date > to)

\* the entries of a GET answer that carry the id
EntriesOf(answer, id) == {i \in 1..Len(answer) : answer[i].id = id}

\* the entry shows what the body sent, the times those in SentTimes
ShowsSent(entry, id, body, SentTimes) ==
    /\ entry.id = id
    /\ entry.start_date = body.start_date
    /\ entry.end_date = body.end_date
    /\ entry.holiday = Trim(body.holiday)
    /\ entry.comment = Trim(body.comment)
    /\ entry.is_open = body.is_open
    /\ <<entry.start_time, entry.end_time>> = SentTimes

TimesAsSent(body) == <<Slice5(body.start_time), Slice5(body.end_time)>>
TimesWhenOpen(body) == IF body.is_open THEN TimesAsSent(body) ELSE <<NullText, NullText>>

\* a successful PUT of body on id is followed, in every overlapping range, by a
\* GET that shows the id once with the fields sent and the times sent (none for
\* a closed override when whenOpen),
\* and a second identical PUT succeeds and leaves every GET answer as it was
PutThenGet(whenOpen) ==
    \A id \in HolidayIds, body \in PutBodies :
        HolidayPutStatus(session, holiday_hours, id, body) = 200 =>
            LET after == HolidayPutRows(holiday_hours, id, body)
                again == HolidayPutRows(after, id, body)
            IN  /\ HolidayPutStatus(session, after, id, body) = 200
                /\ \A range \in GetRanges :
                       LET answer == HolidayGetAnswer(after, range[1], range[2])
                       IN  /\ RangeOverlaps(body, range[1], range[2]) =>
                                  /\ Cardinality(EntriesOf(answer, id)) = 1
                                  /\ \A i \in EntriesOf(answer, id) :
                                         ShowsSent(answer[i], id, body,
                                                   IF whenOpen THEN TimesWhenOpen(body)
                                                   ELSE TimesAsSent(body))
                           /\ HolidayGetAnswer(again, range[1], range[2]) = answer

\* C17 (as amended): after a successful PUT /api/admin/holiday-hours/:id a
\* ranged GET that overlaps the override returns that id with the start_date,
\* end_date, trimmed label and comment and boolean is_open sent, and with the
\* times sent cut to HH:MM when is_open is true and no times when it is false;
\* repeating the PUT does not change what the GET returns.
C17_PutThenGetNormalized == PutThenGet(TRUE)

\* the list shows, open with its times, an override that only a PUT can have
\* written
C17_Witness ==
    /\ admin.route = "GET holiday-hours" /\ admin.status = 200
    /\ \E i \in 1..Len(admin.rows) :
           /\ admin.rows[i].holiday = <<"B">>
           /\ admin.rows[i].is_open
           /\ admin.rows[i].start_time = T0900

\* C17 as stated: the times returned are the ones sent cut to HH:MM, whatever
\* is_open is
C17_PutThenGetAsSent == PutThenGet(FALSE)

-----------------------------------------------------------------------------
(* SpecReviews: the public posts and lists reviews while the clock moves;
   each body is a valid one with one field varied up to and past its limit *)

Word(n) == [i \in 1..n |-> "x"]
Padded(t) == <<" ">> \o t \o <<" ">>

Ratings ==
    {JsonNumber(0), JsonNumber(2), JsonNumber(9), JsonNumber(10), JsonNumber(12),
     JsonText(<<5>>), JsonText(<<Dash>>), JsonTrue, JsonNull, Absent}
Types ==
    {JsonText(Word(1)), JsonText(Padded(Word(1))), JsonText(Word(50)),
     JsonText(Word(51)), JsonText(Padded(Word(49))), JsonText(<<" ">>),
     JsonText(<<>>), JsonNumber(2), Absent}
CommentsValues ==
    {Absent, JsonNull, JsonText(<<>>), JsonText(<<" ">>), JsonText(Padded(<<"c">>)),
     JsonText(Word(500)), JsonText(Word(501)), JsonText(Padded(Word(499))),
     JsonNumber(2)}

ReviewBody(r, t, c) == [Rating |-> r, TypeOfMassage |-> t, Comments |-> c]

ReviewBodies ==
    {ReviewBody(r, JsonText(Word(1)), Absent) : r \in Ratings}
    \cup {ReviewBody(JsonNumber(10), t, Absent) : t \in Types}
    \cup {ReviewBody(JsonNumber(10), JsonText(Word(50)), c) : c \in CommentsValues}

Limits == {NaN, <<0>>, <<1>>, <<5>>}

NextReviews ==
    \/ \E body \in ReviewBodies : ReviewPost(body)
    \/ \E limit \in Limits : ReviewList(limit)
    \/ \E t \in ClockValues : Tick(t)

SpecReviews == Init /\ [][NextReviews]_vars

\* the number a body's Rating stands for is a whole number from 1 to 5, its
\* TypeOfMassage is a text of at most 50 characters that is not blank, and its
\* Comments are absent or a text of at most 500 characters
WithinLimits(body) ==
    /\ \E n \in 1..5 : JsNumber(body.Rating) = <<2 * n>>
    /\ body.TypeOfMassage.kind = "text"
    /\ Len(body.TypeOfMassage.text) <= 50
    /\ \E i \in 1..Len(body.TypeOfMassage.text) : body.TypeOfMassage.text[i] # " "
    /\ \/ body.Comments.kind \in {"absent", "null"}
       \/ body.Comments.kind = "text" /\ Len(body.Comments.text) <= 500

ReviewsValid ==
    \A r \in reviews :
        /\ r.Rating \in 1..5
        /\ r.TypeOfMassage # NullText /\ Len(r.TypeOfMassage) <= 50
        /\ r.Comments = NullText \/ Len(r.Comments) <= 500

\* C18: every stored review has an integer Rating in 1..5, a non-empty
\* TypeOfMassage of at most 50 characters and Comments that are absent or at
\* most 500 characters; a POST /api/reviews outside these limits is answered
\* 400 and stores nothing; a POST within them is answered 201 with the row it
\* created, which carries a new id and the time of creation; and no step
\* changes or removes a stored review.
C18_ReviewsValid ==
    /\ [](/\ ReviewsValid
          /\ \A body \in ReviewBodies :
                 ReviewPostStatus(body) = IF WithinLimits(body) THEN 201 ELSE 400)
    /\ [][/\ reviews \subseteq reviews'
          /\ (review'.route = "POST reviews" /\ review'.status = 400) =>
                 reviews' = reviews
          /\ (review'.route = "POST reviews" /\ review'.status = 201
                  /\ review' # review) =>
                 /\ Len(review'.body) = 1
                 /\ reviews' = reviews \cup {review'.body[1]}
                 /\ \A r \in reviews : r.ReviewID # review'.body[1].ReviewID
                 /\ review'.body[1].CreatedAt = now]_vars

\* a second review has been created with the longest texts allowed, after the
\* clock moved
C18_Witness ==
    /\ review.route = "POST reviews" /\ review.status = 201
    /\ Cardinality(reviews) = 2
    /\ review.body[1].CreatedAt > 0
    /\ Len(review.body[1].TypeOfMassage) = 50
    /\ Len(review.body[1].Comments) = 500

\* a request outside the limits has been answered 400 with a review stored
C18_WitnessRejected ==
    /\ review.route = "POST reviews" /\ review.status = 400
    /\ reviews # {}

-----------------------------------------------------------------------------
(* Login answers for an unknown email and for a wrong password *)

UnknownEmail(c) == c[1] # "" /\ c[2] # "" /\ \A u \in Users : u.email # c[1]
WrongPassword(c) ==
    /\ c[1] # "" /\ c[2] # ""
    /\ \E u \in Users : u.email = c[1] /\ ~bcryptCompare(c[2], u.password_hash)

\* C19: POST /auth/login answers an email that has no user and an existing
\* email with a wrong password with the same status, 401, and the same body,
\* and neither login changes the user attached to the session.
C19_SameAnswer ==
    /\ [](\A c1 \in Credentials, c2 \in Credentials :
              (UnknownEmail(c1) /\ WrongPassword(c2)) =>
                  /\ LoginAnswer(c1[1], c1[2]) = LoginAnswer(c2[1], c2[2])
                  /\ LoginAnswer(c1[1], c1[2]).status = 401
                  /\ LoginAnswer(c1[1], c1[2]).user = NoUser)
    /\ [][(auth'.route = "login" /\ auth'.status = 401) => session' = session]_vars

\* a login has just been refused with 401 on a session that carries no user
C19_Witness ==
    /\ auth = LoginAnswer("nobody@x", "pw-admin")
    /\ auth = LoginAnswer("admin@x", "pw-viewer")
    /\ auth.status = 401
    /\ session = NoUser

\* a login has just been refused with 401 on a session that carries a user
C19_WitnessLoggedIn ==
    /\ auth.route = "login" /\ auth.status = 401
    /\ session # NoUser

-----------------------------------------------------------------------------
(* SpecAdapters: an admin stores overrides and the public asks either
   adapter, on the same database, which override applies on a date *)

InfoDates == {NoDate, 0, 1, 2}

NextAdapters ==
    \/ Login(AdminLogin[1], AdminLogin[2])
    \/ \E body \in HolidayBodies : HolidayPost(body)
    \/ \E date \in InfoDates : HolidayInfo(date)
    \/ \E date \in InfoDates : ListenerHolidayInfo(date)

SpecAdapters == Init /\ [][NextAdapters]_vars

\* the two answers agree in status and body
SameAnswer(a, b) == a.status = b.status /\ a.exists = b.exists /\ a.row = b.row

\* C20: on every database state the two adapters answer a request with the
\* same status and the same body; here for GET /api/holiday-info, the one
\* route whose code differs between them.
C20_AdaptersAgree ==
    \A date \in InfoDates :
        \A answer \in ListenerHolidayInfoAnswers(date) :
            SameAnswer(HolidayInfoAnswer(date), answer)

\* both adapters agree on a malformed date
C20_AgreeOnMalformedDate ==
    \A answer \in ListenerHolidayInfoAnswers(NoDate) :
        SameAnswer(HolidayInfoAnswer(NoDate), answer)

\* the listener has answered a date on which the on-demand adapter reports a
\* closed override, and none of the answers it can give reports one
C20_Diverged ==
    /\ info \in ListenerHolidayInfoAnswers(1)
    /\ \A answer \in ListenerHolidayInfoAnswers(1) : ~answer.exists
    /\ HolidayInfoAnswer(1).exists
    /\ ~HolidayInfoAnswer(1).row[1].is_open

-----------------------------------------------------------------------------
(* SpecParam: availability of a Monday is asked with slotMinutes texts of
   every kind *)

\* values of req.query.slotMinutes: absent, "0", "-3", "3", "5", "7", "30",
\* "60", ":" and "7.5"
SlotTexts ==
    {<<>>, <<0>>, <<Dash, 3>>, <<3>>, <<5>>, <<7>>, <<3, 0>>, <<6, 0>>, <<Colon>>,
     <<7, Dot, 5>>}

ParamWindows ==
    {AvailWindow, [is_open |-> TRUE, start_time |-> T0900, end_time |-> T1000],
     [is_open |-> TRUE, start_time |-> T1000, end_time |-> T1200]}

\* the slot size of the answer to a slotMinutes text
AnsweredSlot(text) == AvailabilityAnswer(1, parseInt10(text)).slotMinutes

NextParam ==
    \/ Login(AdminLogin[1], AdminLogin[2])
    \/ \E body \in ParamWindows : BizPut(1, body)
    \/ \E text \in SlotTexts : Availability(1, parseInt10(text))
    \/ \E t \in AvailClockValues : Tick(t)

SpecParam == Init /\ [][NextParam]_vars

\* the text is an integer: an optional "-" and then digits only
IsIntegerText(s) ==
    LET body == IF s # <<>> /\ s[1] = Dash THEN Tail(s) ELSE s
    IN  body # <<>> /\ \A i \in 1..Len(body) : body[i] \in 0..9

IntegerOf(s) ==
    IF s[1] = Dash THEN 0 - NumberOf(Tail(s)) ELSE NumberOf(s)

\* C22: the slot size availability uses is max(5, n) for every integer n
\* supplied as slotMinutes, 0 and negative values included, and 30 when the
\* parameter is absent or not an integer; it is never below 5.
C22_SlotSize ==
    \A text \in SlotTexts :
        AnsweredSlot(text) =
            IF ~IsIntegerText(text) THEN 30
            ELSE IF IntegerOf(text) < 5 THEN 5 ELSE IntegerOf(text)

\* the slot size is never below 5, is max(5, n) for every integer n other
\* than 0, and is 30 for an absent parameter and one without a leading digit
C22_SlotSizeButZero ==
    /\ \A text \in SlotTexts : AnsweredSlot(text) >= 5
    /\ avail.status = 200 => avail.slotMinutes >= 5
    /\ \A text \in SlotTexts \ {<<0>>, <<7, Dot, 5>>} :
           AnsweredSlot(text) =
               IF ~IsIntegerText(text) THEN 30
               ELSE IF IntegerOf(text) < 5 THEN 5 ELSE IntegerOf(text)

\* availability has answered with slots of 30 minutes where 5 were due
C22_ZeroGivesThirty ==
    /\ AnsweredSlot(<<0>>) = 30
    /\ avail.status = 200 /\ avail.slotMinutes = 30 /\ Len(avail.times) = 6

-----------------------------------------------------------------------------
(* Availability against the conflict query of a booking, under SpecAvail *)

\* the candidates of the Monday window b that are not in the past
FutureCandidates(b, slot) ==
    Future(1, Candidates(FormatHHMM(b.start_time), slot, FormatHHMM(b.end_time)))

Elements(seq) == {seq[i] : i \in 1..Len(seq)}

\* an otherwise valid booking of day 1 at t for s minutes
BookingOf(t, s) ==
    [complete |-> TRUE, date |-> 1, time |-> t, duration |-> s, phoneNumber |-> Phone1]

\* a time availability returns for 30 or 60 minutes is not answered 409 when
\* booked for that long, and a candidate it leaves out for an appointment is
TimesBookable ==
    \A s \in {30, 60}, b \in MondayWindow :
        HolidayMatches(1) = {} =>
            LET times == Elements(AvailabilityAnswer(1, <<s>>).times)
            IN  /\ \A t \in times : BookStatus(BookingOf(t, s)) # 409
                /\ \A t \in Elements(FutureCandidates(b, s)) \ times :
                       BookStatus(BookingOf(t, s)) = 409

\* the in-memory test of availability and the conflict query give the same
\* verdict on every candidate slot of a request and every appointment of the
\* date
TestsAgree ==
    \A parsed \in AvailParams, b \in MondayWindow, a \in appointments :
        a.date = 1 =>
            LET slot == SlotMinutes(parsed)
                start == toHHMM(timeColumnText(a.time))
            IN  \A t \in Elements(Candidates(FormatHHMM(b.start_time), slot,
                                             FormatHHMM(b.end_time))) :
                    overlaps(t, addMinutesHHMM(t, slot),
                             start, addMinutesHHMM(start, a.duration))
                    <=> a \in BookConflictRows(1, t, slot)

\* C26: a time that availability returns for slotMinutes s in {30, 60} is not
\* answered 409 when booked with duration s, a candidate left out because of
\* an appointment is answered 409, and the in-memory overlap test and the
\* conflict query agree on every pair of intervals.
C26_AvailabilityMatchesConflict == TimesBookable /\ TestsAgree

\* the first two parts alone
C26_TimesBookable == TimesBookable

\* availability has returned 09:00 for a slot that the conflict query finds
\* overlapping the stored appointment
C26_Disagreement ==
    /\ avail.status = 200 /\ avail.slotMinutes = 5460
    /\ T0900 \in Elements(avail.times)
    /\ BookConflictRows(1, T0900, 5460) # {}

-----------------------------------------------------------------------------
(* SpecClosed: an admin opens and closes Monday, by PUT and by DELETE, and
   availability of a Monday is asked *)

ClosedPuts ==
    {AvailWindow,
     [is_open |-> TRUE, start_time |-> T0900, end_time |-> T1000],
     [is_open |-> FALSE, start_time |-> T0900, end_time |-> T1200],
     [is_open |-> FALSE, start_time |-> NullText, end_time |-> NullText]}

NextClosed ==
    \/ Login(AdminLogin[1], AdminLogin[2])
    \/ \E body \in ClosedPuts : BizPut(1, body)
    \/ BizDelete(1)
    \/ BizGet
    \/ \E parsed \in {NaN, <<60>>} : Availability(1, parsed)
    \/ \E t \in AvailClockValues : Tick(t)

SpecClosed == Init /\ [][NextClosed]_vars

\* C27: for a date without an applicable holiday override, whenever the
\* business-hours row of its weekday has is_open = false, availability
\* returns an empty time list.
C27_ClosedWeekdayEmpty ==
    \A b \in business_hours :
        (b.week_day = WeekdayMonday1(1) /\ b.is_open = 0 /\ HolidayMatches(1) = {})
            => AvailabilityAnswer(1, NaN).times = <<>>

\* a closed weekday without times is answered with an empty list
C27_ClosedWithoutTimesEmpty ==
    \A b \in business_hours :
        (b.week_day = WeekdayMonday1(1) /\ b.is_open = 0 /\ HolidayMatches(1) = {}
             /\ (b.start_time = NoTime \/ b.end_time = NoTime))
            => AvailabilityAnswer(1, NaN).times = <<>>

\* Monday has just been closed by DELETE and availability would still offer
\* its six half hours
C27_ClosedDayOffered ==
    /\ admin = AdminReply("DELETE business-hours", 200, <<>>, 0)
    /\ \E b \in business_hours : b.week_day = 1 /\ b.is_open = 0
    /\ Len(AvailabilityAnswer(1, NaN).times) = 6

-----------------------------------------------------------------------------
(* SpecOutside: Monday is open 09:00-12:00 or closed by an override, and
   appointments are booked and moved inside and outside that window *)

T1300 == HHMM(13, 0)

ClosedOverride ==
    [start_date |-> 1, end_date |-> NoDate, holiday |-> Label("A"), comment |-> NullText,
     is_open |-> FALSE, start_time |-> NullText, end_time |-> NullText]

OutsideBookBodies ==
    [complete : {TRUE}, date : {1}, time : {T1000, T1300}, duration : {30},
     phoneNumber : {Phone1}]

OutsideUpdateBodies ==
    [complete : {TRUE}, date : {1}, time : {T1100, T1300}, duration : {60},
     phoneNumber : {NoPhoneField}, active : {"absent"}, paid : {"absent"}]

NextOutside ==
    \/ Login(AdminLogin[1], AdminLogin[2])
    \/ BizPut(1, AvailWindow)
    \/ HolidayPost(ClosedOverride)
    \/ \E body \in OutsideBookBodies : OneAtATime("r1") /\ BookCheck("r1", body)
    \/ OneAtATime("r1") /\ BookInsert("r1")
    \/ \E id \in ApptIds \ {0}, body \in OutsideUpdateBodies :
           OneAtATime("r1") /\ UpdateCheck("r1", id, body)
    \/ OneAtATime("r1") /\ UpdateWrite("r1")
    \/ OneAtATime("r1") /\ UpdateSelect("r1")
    \/ Availability(1, NaN)

SpecOutside == Init /\ [][NextOutside]_vars

\* the windows, in minutes, in which the date can be worked now: the hours of
\* the applied open override, none under a closed one, else the hours of the
\* weekday's row when it is open
WorkingWindows(date) ==
    IF Applied(date) # {}
    THEN {<<h.start_time, h.end_time>> : h \in {g \in Applied(date) : g.is_open = 1}}
    ELSE {<<b.start_time, b.end_time>> :
             b \in {c \in business_hours :
                       /\ c.week_day = WeekdayMonday1(date) /\ c.is_open = 1
                       /\ c.start_time # NoTime /\ c.end_time # NoTime}}

\* the appointment of the body lies inside a working window of its date
InsideWindow(body) ==
    \E w \in WorkingWindows(body.date) :
        /\ w[1] <= SqlTime(Slice5(body.time))
        /\ SqlTime(Slice5(body.time)) + body.duration <= w[2]

\* C28: every appointment that POST /api/BookAppointment goes on to store and
\* that PUT /api/appointments/:id goes on to move lies inside the working
\* window of its date at that moment.
C28_StoredInsideWindow ==
    /\ \A body \in OutsideBookBodies : BookStatus(body) = 0 => InsideWindow(body)
    /\ \A id \in ApptIds \ {0}, body \in OutsideUpdateBodies :
           UpdateStatus(session, id, body) = 0 => InsideWindow(body)

\* a booking has been answered 200 and stored on a date that a closed override
\* covers
C28_StoredOnClosedDate ==
    /\ resp["r1"] = Reply("book", 200, {})
    /\ \E h \in Applied(1) : h.is_open = 0
    /\ AvailabilityAnswer(1, NaN).times = <<>>
    /\ \E a \in appointments : a.date = 1

\* an appointment has been moved to 13:00-14:00 while Monday is worked
\* 09:00-12:00
C28_MovedPastClosing ==
    /\ resp["r1"].route = "update" /\ resp["r1"].status = 200
    /\ WorkingWindows(1) = {<<9 * 60, 12 * 60>>}
    /\ \E a \in appointments : a.date = 1 /\ a.time = 13 * 60

-----------------------------------------------------------------------------
(* The route guard of the page *)

GuardLogins == {AdminLogin, ViewerLogin, <<"admin@x", "pw-viewer">>}

NextGuard ==
    \/ \E route \in Paths : OpenPage(route)
    \/ \E route \in Paths : Go(route)
    \/ \E r \in meRequests : MeServed(r)
    \/ \E r \in meRequests : MeArrives(r)
    \/ \E c \in GuardLogins : ClientLogin(c[1], c[2])
    \/ ClientLogout
    \/ Logout

SpecGuard == Init /\ [][NextGuard]_vars

\* C21: a guarded page (/Management, /AllAppointments) is on screen only
\* while the shared auth state holds a user whose role is "admin"; with no
\* user the guard shows /login instead, with a user of another role it shows /
C21_GuardedOnlyForAdmin ==
    /\ path \in GuardedPaths => clientUser # NoUser /\ clientUser.role = "admin"
    /\ \A route \in GuardedPaths :
          /\ clientUser = NoUser => Rendered(clientUser, route) = "/login"
          /\ clientUser # NoUser /\ clientUser.role # "admin"
                => Rendered(clientUser, route) = "/"

\* an admin is on /Management
C21_AdminOnManagement ==
    /\ path = "/Management"
    /\ clientUser # NoUser /\ clientUser.role = "admin"

\* the page is loaded and left alone but for signing in and out: no link is
\* followed, and the page is not loaded again before it has its answer from
\* GET /auth/me; the answers are served and delivered
NextDirect ==
    \/ \E route \in Paths : meRequests = {} /\ OpenPage(route)
    \/ \E r \in meRequests : MeServed(r)
    \/ \E r \in meRequests : MeArrives(r)
    \/ \E c \in GuardLogins : ClientLogin(c[1], c[2])
    \/ ClientLogout
    \/ Logout

SpecDirect ==
    /\ Init /\ [][NextDirect]_vars
    /\ WF_vars(\E r \in meRequests : MeServed(r))
    /\ WF_vars(\E r \in meRequests : MeArrives(r))

\* C29: an admin whose server session is valid and who loads a guarded route
\* is eventually shown a guarded page (unless the session ends or another
\* address is loaded), and loading a
\* guarded route never puts /login on screen while the first GET /auth/me of
\* the page is outstanding
C29_DirectOpenShown ==
    /\ []((requested \in GuardedPaths /\ session.role = "admin"
              /\ clientUser = NoUser /\ MeRequest(FALSE) \in meRequests)
             => <>(path \in GuardedPaths \/ session.role # "admin"
                                         \/ requested \notin GuardedPaths))
    /\ [][\A route \in GuardedPaths :
             ((OpenPage(route) /\ session.role = "admin") => path' # "/login")]_vars

-----------------------------------------------------------------------------
(* The wizard of /BookAppointment *)

\* Monday is open 09:00-10:00
WizardWindow == [is_open |-> TRUE, start_time |-> T0900, end_time |-> T1000]

\* the dates of the calendar cells: a Monday and the Tuesday after it
WizardDates == {1, 2}

WizardTimes == {T0900, T0930}

\* the values typed or selected in the inputs of the details step
FieldValues ==
    [name |-> {"", "Ann"}, phoneNumber |-> {<<>>, Phone1.text},
     duration |-> {0, 30}, type |-> {"", "checkup"}]

NextWizard ==
    \/ Login(AdminLogin[1], AdminLogin[2])
    \/ BizPut(1, WizardWindow)
    \/ Go("/BookAppointment")
    \/ \E date \in WizardDates : PickDate(date)
    \/ \E t \in WizardTimes : PickTime(t)
    \/ ChangeTime
    \/ \E name \in DOMAIN FieldValues : \E value \in FieldValues[name] :
           FieldChange(name, value)
    \/ \E f \in fetches : FetchAnswered(f)
    \/ \E f \in fetches : FetchAborted(f)
    \/ Submit
    \/ \E s \in submits : SubmitAnswered(s)

SpecWizard == Init /\ [][NextWizard]_vars

\* C23: the time step is shown only with a date, the details step only with
\* a date and a time; picking a date, from any step, leads to the time step
\* with that date and no time; a submission answered ok leads to the date
\* step with every field empty, and one answered otherwise leaves the step
\* and the fields as they are
C23_WizardSteps ==
    /\ [](/\ step \in {"date", "time", "details"}
          /\ (step = "time" => formData.date # NoDate)
          /\ (step = "details" => (formData.date # NoDate /\ formData.time # NullText)))
    /\ [][ /\ \A date \in WizardDates :
                (PickDate(date) =>
                   (step' = "time" /\ formData'.date = date /\ formData'.time = NullText))
           /\ \A s \in submits :
                (SubmitAnswered(s) =>
                   IF resp'["r1"].status = 200
                   THEN step' = "date" /\ formData' = NoFormData
                   ELSE UNCHANGED <<step, formData>>) ]_vars

\* a submission was answered ok and the wizard is back at the date step
C23_BackAtDateStep ==
    /\ path = "/BookAppointment" /\ step = "date" /\ formData = NoFormData
    /\ resp["r1"] = Reply("book", 200, {})
    /\ appointments # {}

\* a submission was answered 409 and the details step still holds the form
C23_RejectedKeepsForm ==
    /\ path = "/BookAppointment" /\ step = "details"
    /\ resp["r1"] = Reply("book", 409, {})
    /\ formData.name = "Ann" /\ formData.time = T0900

-----------------------------------------------------------------------------
(* The time step of the wizard and its availability requests *)

\* the Tuesday is closed for a holiday
TuesdayClosed ==
    [start_date |-> 2, end_date |-> NoDate, holiday |-> Label("A"), comment |-> NullText,
     is_open |-> FALSE, start_time |-> NullText, end_time |-> NullText]

NextList ==
    \/ Login(AdminLogin[1], AdminLogin[2])
    \/ BizPut(1, WizardWindow)
    \/ HolidayPost(TuesdayClosed)
    \/ \E route \in {"/", "/BookAppointment"} : Go(route)
    \/ \E date \in WizardDates : PickDate(date)
    \/ \E t \in WizardTimes : PickTime(t)
    \/ ChangeTime
    \/ \E n \in {0 - 1, 1} : ChangeMonth(n)
    \/ \E f \in fetches : FetchAnswered(f)
    \/ \E f \in fetches : FetchAborted(f)

SpecList == Init /\ [][NextList]_vars

\* what the effect stores of the answer to the request f
Stored(f) ==
    LET answer == AvailabilityAnswer(f.date, <<30>>)
    IN  [times |-> answer.times,
         label |-> IF answer.meta THEN answer.holidayLabel ELSE NullText]

\* C24: a request that has not been cancelled is the one for the date now
\* selected, so a change of the date cancels the earlier request; only the
\* answer to a request for the selected date is ever applied; and the time
\* list and the holiday info change only by being cleared or by being set
\* from the answer for the selected date, a change of the date clearing both
C24_StaleAnswerNeverApplied ==
    /\ [](\A f \in fetches : ~f.aborted => (f.date = formData.date /\ step = "time"))
    /\ [][ /\ \A f \in fetches : (FetchAnswered(f) => f.date = formData.date)
           /\ (availableTimes' # availableTimes \/ holidayInfo' # holidayInfo)
                 => \/ (availableTimes' = <<>> /\ holidayInfo' = NoHolidayInfo)
                    \/ \E f \in fetches :
                          /\ ~f.aborted /\ f.date = formData'.date
                          /\ availableTimes' = Stored(f).times
                          /\ holidayInfo'.label = Stored(f).label
           /\ formData'.date # formData.date
                 => (availableTimes' = <<>> /\ holidayInfo' = NoHolidayInfo) ]_vars

\* the request for the Tuesday was cancelled and has not settled yet, and the
\* time list shown is the one of the Monday selected after it
C24_CancelledAndReplaced ==
    /\ path = "/BookAppointment" /\ step = "time" /\ formData.date = 1
    /\ [date |-> 2, aborted |-> TRUE] \in fetches
    /\ availableTimes = <<T0900, T0930>>
    /\ holidayInfo # NoHolidayInfo

\* C30: while a request for the selected date is in flight the loading flag
\* is set, and "No times available" is not on screen while a request that
\* has not been cancelled is in flight
C30_LoadingWhileInFlight ==
    /\ \A f \in fetches : (~f.aborted /\ f.date = formData.date) => loadingTimes
    /\ ShowsNoTimes => \A f \in fetches : f.aborted

\* "No times available" is on screen for the Monday, which has free times,
\* while the request for it is in flight
C30_NoTimesShownWhileLoading ==
    /\ ShowsNoTimes /\ formData.date = 1
    /\ LiveFetch(1) \in fetches
    /\ AvailabilityAnswer(1, <<30>>).times # <<>>

-----------------------------------------------------------------------------
(* The edit modal of /AllAppointments *)

\* an hour at 10:00 and half an hour at 11:00, both on the Monday
ModalBookBodies ==
    { [complete |-> TRUE, date |-> 1, time |-> T1000, duration |-> 60,
       phoneNumber |-> Phone1],
      [complete |-> TRUE, date |-> 1, time |-> T1100, duration |-> 30,
       phoneNumber |-> Phone1] }

NextModal ==
    \/ ClientLogin(AdminLogin[1], AdminLogin[2])
    \/ \E r \in meRequests : MeServed(r)
    \/ \E r \in meRequests : MeArrives(r)
    \/ \E route \in {"/login", "/AllAppointments"} : Go(route)
    \/ \E body \in ModalBookBodies : OneAtATime("r1") /\ BookCheck("r1", body)
    \/ OneAtATime("r1") /\ BookInsert("r1")
    \/ \E appt \in appointments : OpenEdit(appt)
    \/ \E date \in WizardDates : EditDate(date)
    \/ \E duration \in {30, 60} : EditDuration(duration)
    \/ CloseEdit
    \/ \E l \in lookups : LookupAnswered(l)

SpecModal == Init /\ [][NextModal]_vars

\* the on-the-hour slots whose interval, for the duration of the form,
\* overlaps an appointment of the form's date other than the edited one
Occupied ==
    { t \in HourSlots :
        \E a \in appointments :
           /\ a.id # editing /\ a.date = editForm.date
           /\ t < a.time + a.duration /\ t + editForm.duration > a.time }

\* C25: once the lookup for the date and duration of the form is answered,
\* the disabled options of the time select are the occupied slots
C25_OccupiedSlotsDisabled ==
    [][\A l \in lookups :
          (LookupAnswered(l) => bookedTimesForEdit' = Occupied')]_vars

\* appointment 1 (10:00-11:00) is being edited, its lookup has been answered,
\* and the 11:00 option, taken by appointment 2, is not disabled
C25_TakenSlotEnabled ==
    /\ path = "/AllAppointments" /\ editing = 1 /\ lookups = {}
    /\ admin.route = "POST availability" /\ admin.status = 404
    /\ editForm = [date |-> 1, duration |-> 60]
    /\ 11 * 60 \in Occupied
    /\ 11 * 60 \notin bookedTimesForEdit

=============================================================================
